---------------------------- MODULE Spec2Model ----------------------------
(***************************************************************************)
(* Curvature field of the Geometry-System visualisation: the CPU height    *)
(* evaluator getSurfaceZ (utils/physics.ts), the GPU expression            *)
(* getCurvature (constants.tsx, CURVATURE_COMMON), the per-frame uniform   *)
(* synchronisation of the mesh components, and the regime classifier.      *)
(*                                                                         *)
(* Numbers.  A JavaScript / GLSL number is modelled as a pair <<kind, v>>: *)
(*   <<"fin", v>>  a finite value, v an integer count of 1/SCALE units     *)
(*   <<"nan", 0>>  NaN                                                     *)
(*   <<"inf", s>>  +Infinity (s = 1) or -Infinity (s = -1)                 *)
(* Finite arithmetic is fixed point with truncation toward zero; on the    *)
(* grid of inputs used here the metric term is computed without rounding.  *)
(* sin, cos, exp and sqrt are fixed-point approximations of the library    *)
(* functions; the non-finite cases follow IEEE-754 / ECMAScript.           *)
(***************************************************************************)
EXTENDS Integers, Sequences, FiniteSets, TLC

\* Resolution of the fixed-point grid: 1/SCALE is the smallest step.
SCALE == 100 * 100

-----------------------------------------------------------------------------
(* Number layer *)

Fin(v) == <<"fin", v>>
NaN == <<"nan", 0>>
PosInf == <<"inf", 1>>
NegInf == <<"inf", 0 - 1>>

\* The decimal literal m/d of the source, e.g. Lit(3, 10) for 0.3.
Lit(m, d) == Fin((m * SCALE) \div d)

IsFin(a) == a[1] = "fin"
IsNaNv(a) == a[1] = "nan"
IsInf(a) == a[1] = "inf"

Abs(n) == IF n < 0 THEN 0 - n ELSE n
Sgn(n) == IF n < 0 THEN 0 - 1 ELSE IF n > 0 THEN 1 ELSE 0

\* Sign of a non-NaN number: -1, 0 or 1.
SignOf(a) == IF IsInf(a) THEN a[2] ELSE Sgn(a[2])

\* |a| * |b| / SCALE truncated, computed without leaving 32-bit range.
MulFx(a, b) ==
    LET A == Abs(a)
        B == Abs(b)
        qa == A \div SCALE
        ra == A % SCALE
        qb == B \div SCALE
        rb == B % SCALE
    IN  (Sgn(a) * Sgn(b)) * (qa * qb * SCALE + qa * rb + ra * qb + (ra * rb) \div SCALE)

\* r * SCALE / b for 0 <= r < b, in two steps of 100 to stay in 32-bit range.
FracFx(r, b) ==
    LET t1 == (r * 100) \div b
        r1 == (r * 100) % b
    IN  t1 * 100 + (r1 * 100) \div b

\* a / b truncated toward zero, b # 0.
DivFx(a, b) ==
    LET A == Abs(a)
        B == Abs(b)
    IN  (Sgn(a) * Sgn(b)) * ((A \div B) * SCALE + FracFx(A % B, B))

FNeg(a) ==
    IF IsNaNv(a) THEN NaN
    ELSE IF IsInf(a) THEN <<"inf", 0 - a[2]>>
    ELSE Fin(0 - a[2])

FAdd(a, b) ==
    IF IsNaNv(a) \/ IsNaNv(b) THEN NaN
    ELSE IF IsInf(a) /\ IsInf(b) THEN (IF a[2] = b[2] THEN a ELSE NaN)
    ELSE IF IsInf(a) THEN a
    ELSE IF IsInf(b) THEN b
    ELSE Fin(a[2] + b[2])

FSub(a, b) == FAdd(a, FNeg(b))

FMul(a, b) ==
    IF IsNaNv(a) \/ IsNaNv(b) THEN NaN
    ELSE IF IsInf(a) \/ IsInf(b)
         THEN (IF SignOf(a) = 0 \/ SignOf(b) = 0 THEN NaN
               ELSE <<"inf", SignOf(a) * SignOf(b)>>)
    ELSE Fin(MulFx(a[2], b[2]))

FDiv(a, b) ==
    IF IsNaNv(a) \/ IsNaNv(b) THEN NaN
    ELSE IF IsInf(a) THEN (IF IsInf(b) THEN NaN
                           ELSE <<"inf", a[2] * (IF SignOf(b) < 0 THEN 0 - 1 ELSE 1)>>)
    ELSE IF IsInf(b) THEN Fin(0)
    ELSE IF b[2] = 0 THEN (IF a[2] = 0 THEN NaN ELSE <<"inf", Sgn(a[2])>>)
    ELSE Fin(DivFx(a[2], b[2]))

\* a > b and a < b of the languages: false as soon as one side is NaN.
FGt(a, b) ==
    IF IsNaNv(a) \/ IsNaNv(b) THEN FALSE
    ELSE IF IsInf(a) THEN (a[2] = 1 /\ b # a)
    ELSE IF IsInf(b) THEN b[2] = 0 - 1
    ELSE a[2] > b[2]

FLt(a, b) == FGt(b, a)

-----------------------------------------------------------------------------
(* Library functions in fixed point *)

PI_FX == (31416 * SCALE) \div 10000
TWO_PI_FX == (62832 * SCALE) \div 10000
HALF_PI_FX == (15708 * SCALE) \div 10000
LN2_FX == (6931 * SCALE) \div 10000

\* sin on [0, pi], Bhaskara's rational approximation 16x(pi-x)/(5pi^2-4x(pi-x)).
SinHalfWave(x) ==
    LET x3 == x \div 10
        p == PI_FX \div 10
        q == x3 * (p - x3)
        r == (16 * q) \div ((5 * p * p - 4 * q) \div SCALE)
    IN  IF r > SCALE THEN SCALE ELSE r

SinFx(v) ==
    LET m == v % TWO_PI_FX
    IN  IF m <= PI_FX THEN SinHalfWave(m) ELSE 0 - SinHalfWave(m - PI_FX)

CosFx(v) == SinFx(v + HALF_PI_FX)

RECURSIVE Halve(_, _)
Halve(v, k) == IF k = 0 \/ v = 0 THEN v ELSE Halve(v \div 2, k - 1)

\* exp(-u) for u >= 0: 2^(-k) * pade(r), u = k ln2 + r.
ExpNegFx(u) ==
    LET k == u \div LN2_FX
        r == u % LN2_FX
        r2 == (r * r) \div (12 * SCALE)
        num == SCALE - r \div 2 + r2
        den == SCALE + r \div 2 + r2
    IN  Halve((num * SCALE) \div den, k)

RECURSIVE SqrtGuess(_, _)
\* A power-of-two multiple of SCALE that is at least sqrt(v * SCALE).
SqrtGuess(v, c) == IF MulFx(c, c) >= v THEN c ELSE SqrtGuess(v, 2 * c)

RECURSIVE SqrtNewton(_, _)
\* Heron's iteration from above: ends at floor(sqrt(v * SCALE)).
SqrtNewton(v, c) ==
    LET n == (c + DivFx(v, c)) \div 2
    IN  IF n >= c THEN c ELSE SqrtNewton(v, n)

SqrtFx(v) == IF v = 0 THEN 0 ELSE SqrtNewton(v, SqrtGuess(v, SCALE))

\* Math.sin / sin
FSin(a) == IF IsFin(a) THEN Fin(SinFx(a[2])) ELSE NaN
\* Math.cos / cos
FCos(a) == IF IsFin(a) THEN Fin(CosFx(a[2])) ELSE NaN
\* Math.exp / exp
FExp(a) ==
    IF IsNaNv(a) THEN NaN
    ELSE IF IsInf(a) THEN (IF a[2] = 1 THEN PosInf ELSE Fin(0))
    ELSE IF a[2] <= 0 THEN Fin(ExpNegFx(0 - a[2]))
    ELSE LET e == ExpNegFx(a[2])
         IN  IF e = 0 THEN PosInf ELSE Fin(DivFx(SCALE, e))
\* Math.sqrt / length
FSqrt(a) ==
    IF IsNaNv(a) THEN NaN
    ELSE IF IsInf(a) THEN (IF a[2] = 1 THEN PosInf ELSE NaN)
    ELSE IF a[2] < 0 THEN NaN
    ELSE Fin(SqrtFx(a[2]))

\* Number.isFinite
NumberIsFinite(a) == IsFin(a)
\* isNaN
isNaN(a) == IsNaNv(a)

-----------------------------------------------------------------------------
(* utils/physics.ts: constants, catalog, orbit solver *)

\* Variants with a wrong constant, against which the constant-sensitive
\* properties are exercised.
ExaggerationOne == Lit(1, 1)
WideWellWidth == Lit(2, 10)

\* A width of the wrong sign: the exponential grows with distance.
GrowingWellWidth == FNeg(Lit(1, 10))

EXAGGERATION == Lit(2, 1)
GRAVITY_WELL_WIDTH == Lit(1, 10)
SUN_GRAVITY_WIDTH == Lit(5, 100)
UNIVERSE_SCALE == Lit(10, 1)

Planet(n, a, e, speed, mass) ==
    [name |-> n, orbit |-> [a |-> a, e |-> e, speed |-> speed], mass |-> mass]

PLANETS == <<
    Planet("Mercury", Lit(30, 10), Lit(205, 1000), Lit(15, 10), Lit(2, 10)),
    Planet("Venus", Lit(45, 10), Lit(7, 1000), Lit(12, 10), Lit(4, 10)),
    Planet("Earth", Lit(65, 10), Lit(17, 1000), Lit(10, 10), Lit(5, 10)),
    Planet("Mars", Lit(85, 10), Lit(94, 1000), Lit(8, 10), Lit(3, 10)),
    Planet("Jupiter", Lit(120, 10), Lit(49, 1000), Lit(5, 10), Lit(12, 10)),
    Planet("Saturn", Lit(160, 10), Lit(56, 1000), Lit(35, 100), Lit(10, 10)) >>

\* An ellipse drawn about its centre instead of its focus.
getEllipsePosCentred(angle, a, e) ==
    LET b == FMul(a, FSqrt(FSub(Fin(SCALE), FMul(e, e))))
    IN  [x |-> FMul(a, FCos(angle)), y |-> FMul(b, FSin(angle)), z |-> Fin(0)]

getEllipsePos(angle, a, e) ==
    LET b == FMul(a, FSqrt(FSub(Lit(1, 1), FMul(e, e))))
        c == FMul(a, e)
        x == FSub(FMul(a, FCos(angle)), c)
        y == FMul(b, FSin(angle))
    IN  [x |-> x, y |-> y, z |-> Fin(0)]

\* The body of getPlanetPositions: PLANETS.forEach(p => { ... }).
PlanetPositionsAt(time) ==
    [positions |->
        [i \in 1..Len(PLANETS) |->
            LET p == PLANETS[i]
                angle == FMul(FMul(time, p.orbit.speed), Lit(5, 10))
                pos == getEllipsePos(angle, p.orbit.a, p.orbit.e)
            IN  [x |-> pos.x, y |-> pos.y]],
     masses |-> [i \in 1..Len(PLANETS) |-> PLANETS[i].mass]]

\* Clock values of the model: multiples of half a second up to MaxTick halves.
MaxTick == 2
Times == {Fin((n * SCALE) \div 2) : n \in 0..MaxTick}

\* getPlanetPositions tabulated on the clock values, so that the orbit solver
\* runs once per clock value instead of once per call.
PlanetTable == [t \in Times |-> PlanetPositionsAt(t)]

getPlanetPositions(time) ==
    IF time \in Times THEN PlanetTable[time] ELSE PlanetPositionsAt(time)

-----------------------------------------------------------------------------
(* utils/physics.ts: getSurfaceZ, the CPU evaluator *)

\* A variant without the fallback: omega is used as given.
EffectiveOmegaRaw(state) == state.omega

\* A variant that reads a display field: omega scaled by the zoom.
EffectiveOmegaZoomed(state) ==
    IF NumberIsFinite(state.omega) THEN FMul(state.omega, state.zoom) ELSE Lit(1, 1)

\* const omega = Number.isFinite(state.omega) ? state.omega : 1.0
EffectiveOmega(state) ==
    IF NumberIsFinite(state.omega) THEN state.omega ELSE Lit(1, 1)

\* Variants of the branch with wrong thresholds: no flat band at all, and a
\* flat band one step too wide.
CpuBranchNoBand(state) ==
    LET omega == EffectiveOmega(state)
    IN  IF FGt(omega, Lit(1, 1)) THEN "closed"
        ELSE IF FLt(omega, Lit(1, 1)) THEN "open"
        ELSE "flat"

CpuBranchWideBand(state) ==
    LET omega == EffectiveOmega(state)
    IN  IF FGt(omega, Lit(103, 100)) THEN "closed"
        ELSE IF FLt(omega, Lit(97, 100)) THEN "open"
        ELSE "flat"

\* The branch of "1. FLRW Metric": if (omega > 1.02) ... else if (omega < 0.98) ...
CpuBranch(state) ==
    LET omega == EffectiveOmega(state)
    IN  IF FGt(omega, Lit(102, 100)) THEN "closed"
        ELSE IF FLt(omega, Lit(98, 100)) THEN "open"
        ELSE "flat"

\* 1. FLRW metric: z after the two exclusive branches.
CpuMetricStep(z, x, y, state) ==
    LET nx == FDiv(x, UNIVERSE_SCALE)
        ny == FDiv(y, UNIVERSE_SCALE)
        distSq == FAdd(FMul(nx, nx), FMul(ny, ny))
        omega == EffectiveOmega(state)
    IN  IF CpuBranch(state) = "closed"
        THEN LET factor == FMul(FMul(FSub(omega, Lit(1, 1)), Lit(2, 1)), EXAGGERATION)
             IN  FSub(z, FMul(factor, FMul(distSq, Lit(2, 1))))
        ELSE IF CpuBranch(state) = "open"
        THEN LET factor == FMul(FMul(FSub(Lit(1, 1), omega), Lit(2, 1)), EXAGGERATION)
             IN  FAdd(z, FMul(FMul(factor, FSub(FMul(nx, nx), FMul(ny, ny))), Lit(2, 1)))
        ELSE z

\* The length-scale constant of the fourth chaos component on the CPU.
CPU_CHAOS_LEN_K == Lit(3, 10)

\* The multi-layered sine noise of the chaos branch at scaled time t.
CpuChaosNoise(x, y, t) ==
    LET c1 == FMul(FMul(FSin(FAdd(FMul(x, Lit(5, 10)), t)),
                        FSin(FAdd(FMul(y, Lit(5, 10)), t))), Lit(5, 10))
        c2 == FAdd(c1, FMul(FSin(FSub(FMul(x, Lit(15, 10)), FMul(t, Lit(5, 10)))), Lit(25, 100)))
        c3 == FAdd(c2, FMul(FCos(FAdd(FMul(y, Lit(15, 10)), FMul(t, Lit(5, 10)))), Lit(25, 100)))
        len == FSqrt(FAdd(FMul(x, x), FMul(y, y)))
    IN  FAdd(c3, FMul(FSin(FSub(FMul(len, CPU_CHAOS_LEN_K), FMul(t, Lit(2, 1)))), Lit(1, 10)))

\* A chaos step that assigns the noise instead of adding it.
CpuChaosStepOverwrite(z, x, y, state, time) ==
    IF state.chaosMode
    THEN LET speed == IF NumberIsFinite(state.chaosSpeed) THEN state.chaosSpeed ELSE Lit(1, 1)
         IN  FMul(CpuChaosNoise(x, y, FMul(time, speed)), EXAGGERATION)
    ELSE z

\* 2. Chaos mode.
CpuChaosStep(z, x, y, state, time) ==
    IF state.chaosMode
    THEN LET speed == IF NumberIsFinite(state.chaosSpeed) THEN state.chaosSpeed ELSE Lit(1, 1)
             t == FMul(time, speed)
         IN  FAdd(z, FMul(CpuChaosNoise(x, y, t), EXAGGERATION))
    ELSE z

\* const m = masses[i] * (0.5 + state.precision * 0.5)
CpuPlanetMass(state, mass) == FMul(mass, FAdd(Lit(5, 10), FMul(state.precision, Lit(5, 10))))

\* A variant of the Sun's mass that ignores precision.
CpuSunMassFixed(state) == Lit(15, 10)

\* const sunMass = 1.5 * (0.5 + state.precision * 0.5)
CpuSunMass(state) == FMul(Lit(15, 10), FAdd(Lit(5, 10), FMul(state.precision, Lit(5, 10))))

RECURSIVE CpuPlanetLoop(_, _, _, _, _, _)
\* for (let i = 0; i < positions.length; i++) { ... }
CpuPlanetLoop(z, i, x, y, state, pp) ==
    IF i > Len(pp.positions) THEN z
    ELSE LET pos == pp.positions[i]
             dx == FSub(x, pos.x)
             dy == FSub(y, pos.y)
             dSq == FAdd(FMul(dx, dx), FMul(dy, dy))
             m == CpuPlanetMass(state, pp.masses[i])
             z1 == IF FGt(m, Fin(0))
                   THEN FSub(z, FMul(m, FExp(FMul(FNeg(dSq), GRAVITY_WELL_WIDTH))))
                   ELSE z
         IN  CpuPlanetLoop(z1, i + 1, x, y, state, pp)

\* 3. Gravity wells: the planets, then the Sun at (0, 0).
CpuGravityStep(z, x, y, state, time) ==
    IF state.enableGravity
    THEN LET zp == CpuPlanetLoop(z, 1, x, y, state, getPlanetPositions(time))
             dSqSun == FAdd(FMul(x, x), FMul(y, y))
             sunMass == CpuSunMass(state)
         IN  FSub(zp, FMul(sunMass, FExp(FMul(FNeg(dSqSun), SUN_GRAVITY_WIDTH))))
    ELSE z

\* A variant of the input guard that forgets y.
InputGuardXOnly(x, y) == ~NumberIsFinite(x)

\* if (!Number.isFinite(x) || !Number.isFinite(y)) return 0
InputGuard(x, y) == ~NumberIsFinite(x) \/ ~NumberIsFinite(y)

getSurfaceZ(x, y, state, time) ==
    IF InputGuard(x, y) THEN Fin(0)
    ELSE LET z1 == CpuMetricStep(Fin(0), x, y, state)
             z2 == CpuChaosStep(z1, x, y, state, time)
             z3 == CpuGravityStep(z2, x, y, state, time)
         IN  IF isNaN(z3) THEN Fin(0) ELSE z3

-----------------------------------------------------------------------------
(* constants.tsx: CURVATURE_COMMON, the GPU expression.  u is the record of *)
(* uniforms the shader reads.                                              *)

\* The literals of the shader text.
GPU_CHAOS_LEN_K == Lit(30, 10)
GPU_SCALE == Lit(10, 1)
GPU_WELL_WIDTH == Lit(1, 10)
GPU_SUN_WIDTH == Lit(5, 100)

\* float getChaosZ(vec2 pos, float time)
getChaosZ(pos, time) ==
    LET z1 == FMul(FMul(FSin(FAdd(FMul(pos.x, Lit(5, 10)), time)),
                        FSin(FAdd(FMul(pos.y, Lit(5, 10)), time))), Lit(5, 10))
        z2 == FAdd(z1, FMul(FSin(FSub(FMul(pos.x, Lit(15, 10)), FMul(time, Lit(5, 10)))), Lit(25, 100)))
        z3 == FAdd(z2, FMul(FCos(FAdd(FMul(pos.y, Lit(15, 10)), FMul(time, Lit(5, 10)))), Lit(25, 100)))
        length == FSqrt(FAdd(FMul(pos.x, pos.x), FMul(pos.y, pos.y)))
    IN  FAdd(z3, FMul(FSin(FSub(FMul(length, GPU_CHAOS_LEN_K), FMul(time, Lit(2, 1)))), Lit(1, 10)))

\* The branch of "1. FLRW Metric" in getCurvature.
GpuBranch(u) ==
    IF FGt(u.uOmega, Lit(102, 100)) THEN "closed"
    ELSE IF FLt(u.uOmega, Lit(98, 100)) THEN "open"
    ELSE "flat"

GpuMetricStep(z, pos, u) ==
    LET cx == FDiv(pos.x, GPU_SCALE)
        cy == FDiv(pos.y, GPU_SCALE)
        distSq == FAdd(FMul(cx, cx), FMul(cy, cy))
    IN  IF GpuBranch(u) = "closed"
        THEN LET factor == FMul(FMul(FSub(u.uOmega, Lit(1, 1)), Lit(2, 1)), u.uExaggeration)
             IN  FSub(z, FMul(factor, FMul(distSq, Lit(2, 1))))
        ELSE IF GpuBranch(u) = "open"
        THEN LET factor == FMul(FMul(FSub(Lit(1, 1), u.uOmega), Lit(2, 1)), u.uExaggeration)
             IN  FAdd(z, FMul(FMul(factor, FSub(FMul(cx, cx), FMul(cy, cy))), Lit(2, 1)))
        ELSE z

GpuChaosStep(z, pos, u) ==
    IF FGt(u.uChaos, Lit(5, 10))
    THEN LET time == FMul(u.uTime, u.uChaosSpeed)
         IN  FAdd(z, FMul(getChaosZ(pos, time), u.uExaggeration))
    ELSE z

RECURSIVE GpuPlanetLoop(_, _, _, _)
\* for (int i = 0; i < 6; i++) { if (uGravMass[i] > 0.0) ... }
GpuPlanetLoop(z, i, pos, u) ==
    IF i > 6 THEN z
    ELSE LET g == u.uGravPos[i]
             dx == FSub(pos.x, g.x)
             dy == FSub(pos.y, g.y)
             d == FSqrt(FAdd(FMul(dx, dx), FMul(dy, dy)))
             z1 == IF FGt(u.uGravMass[i], Fin(0))
                   THEN FSub(z, FMul(u.uGravMass[i],
                                     FExp(FMul(FMul(FNeg(d), d), GPU_WELL_WIDTH))))
                   ELSE z
         IN  GpuPlanetLoop(z1, i + 1, pos, u)

GpuGravityStep(z, pos, u) ==
    LET zp == GpuPlanetLoop(z, 1, pos, u)
        d == FSqrt(FAdd(FMul(pos.x, pos.x), FMul(pos.y, pos.y)))
    IN  IF FGt(u.uSunMass, Fin(0))
        THEN FSub(zp, FMul(u.uSunMass, FExp(FMul(FMul(FNeg(d), d), GPU_SUN_WIDTH))))
        ELSE zp

\* float getCurvature(vec2 pos)
getCurvature(pos, u) ==
    GpuGravityStep(GpuChaosStep(GpuMetricStep(Fin(0), pos, u), pos, u), pos, u)

-----------------------------------------------------------------------------
(* types.ts: UniverseMesh, the uniforms of the grid's shader material *)

\* useMemo(() => ({ uTime: { value: 0 }, ... }), [])
UniverseMeshInitUniforms(state) ==
    [uTime |-> Fin(0),
     uOmega |-> state.omega,
     uChaos |-> IF state.chaosMode THEN Lit(1, 1) ELSE Fin(0),
     uChaosSpeed |-> state.chaosSpeed,
     uExaggeration |-> EXAGGERATION,
     uColor |-> "#4f46e5",
     uGravPos |-> [i \in 1..6 |-> [x |-> Fin(0), y |-> Fin(0)]],
     uGravMass |-> [i \in 1..6 |-> Fin(0)],
     uSunMass |-> Fin(0)]

\* useEffect(() => { ... }, [state])
UniverseMeshEffect(u, state) ==
    [u EXCEPT !.uOmega = state.omega,
              !.uChaos = IF state.chaosMode THEN Lit(1, 1) ELSE Fin(0),
              !.uChaosSpeed = state.chaosSpeed,
              !.uColor = IF FLt(state.omega, Lit(98, 100)) THEN "#ef4444"
                         ELSE IF FGt(state.omega, Lit(102, 100)) THEN "#3b82f6"
                         ELSE "#10b981"]

\* A variant of the frame callback that resizes the mass array when gravity
\* is disabled.
UniverseMeshFrameShort(u, state, time) ==
    LET pp == getPlanetPositions(time)
        k == FAdd(Lit(5, 10), FMul(state.precision, Lit(5, 10)))
    IN  [u EXCEPT !.uTime = time,
                  !.uGravPos = pp.positions,
                  !.uGravMass = IF state.enableGravity
                                THEN [i \in 1..Len(pp.masses) |-> FMul(pp.masses[i], k)]
                                ELSE [i \in 1..5 |-> Fin(0)],
                  !.uSunMass = IF state.enableGravity
                               THEN FMul(Lit(15, 10), k)
                               ELSE Fin(0)]

\* A variant of the frame callback that writes the catalog masses unscaled.
UniverseMeshFrameUnscaled(u, state, time) ==
    LET pp == getPlanetPositions(time)
    IN  [u EXCEPT !.uTime = time,
                  !.uGravPos = pp.positions,
                  !.uGravMass = IF state.enableGravity THEN pp.masses
                                ELSE [i \in 1..6 |-> Fin(0)],
                  !.uSunMass = IF state.enableGravity THEN Lit(15, 10) ELSE Fin(0)]

\* useFrame((rootState) => { ... })
UniverseMeshFrame(u, state, time) ==
    LET pp == getPlanetPositions(time)
        k == FAdd(Lit(5, 10), FMul(state.precision, Lit(5, 10)))
    IN  [u EXCEPT !.uTime = time,
                  !.uGravPos = pp.positions,
                  !.uGravMass = IF state.enableGravity
                                THEN [i \in 1..Len(pp.masses) |-> FMul(pp.masses[i], k)]
                                ELSE [i \in 1..6 |-> Fin(0)],
                  !.uSunMass = IF state.enableGravity
                               THEN FMul(Lit(15, 10), k)
                               ELSE Fin(0)]

-----------------------------------------------------------------------------
(* components/Controls.tsx: the regime classifier of the status bar *)

getUniverseType(state) ==
    IF FGt(state.omega, Lit(102, 100)) THEN "Closed (Spherical)"
    ELSE IF FLt(state.omega, Lit(98, 100)) THEN "Open (Hyperbolic)"
    ELSE "Flat (Euclidean)"

getAngleSum(state) ==
    IF FGt(state.omega, Lit(102, 100)) THEN "> 180"
    ELSE IF FLt(state.omega, Lit(98, 100)) THEN "< 180"
    ELSE "= 180"

\* className of the status dot
StatusDotColour(state) ==
    IF FGt(state.omega, Lit(102, 100)) THEN "bg-blue-500"
    ELSE IF FLt(state.omega, Lit(98, 100)) THEN "bg-red-500"
    ELSE "bg-green-500"

-----------------------------------------------------------------------------
(* components/SolarSystem.tsx: CurvedMesh (the material wrapper) and        *)
(* CurvedPointLight (a CPU consumer of the height)                         *)

\* mat.onBeforeCompile = (shader) => { shader.uniforms.uTime = { value: 0 }; ... }
\* omega is state.omega as captured when the material was created.
CurvedMeshCompileUniforms(omega) ==
    [uTime |-> Fin(0),
     uOmega |-> omega,
     uChaos |-> Fin(0),
     uChaosSpeed |-> Lit(1, 1),
     uExaggeration |-> Lit(2, 1),
     uColor |-> "",
     uGravPos |-> [i \in 1..6 |-> [x |-> Fin(0), y |-> Fin(0)]],
     uGravMass |-> [i \in 1..6 |-> Fin(0)],
     uSunMass |-> Fin(0)]

\* useFrame((rootState) => { if (uniformsRef.current.uTime) { ... } })
CurvedMeshFrame(u, state, time) ==
    LET pp == getPlanetPositions(time)
        k == FAdd(Lit(5, 10), FMul(state.precision, Lit(5, 10)))
    IN  [u EXCEPT !.uTime = time,
                  !.uOmega = state.omega,
                  !.uChaos = IF state.chaosMode THEN Lit(1, 1) ELSE Fin(0),
                  !.uChaosSpeed = state.chaosSpeed,
                  !.uGravPos = pp.positions,
                  !.uGravMass = IF state.enableGravity
                                THEN [i \in 1..Len(pp.masses) |-> FMul(pp.masses[i], k)]
                                ELSE [i \in 1..6 |-> Fin(0)],
                  !.uSunMass = IF state.enableGravity
                               THEN FMul(Lit(15, 10), k)
                               ELSE Fin(0)]

\* The mass sources getSurfaceZ reads in "3. Gravity Wells" at this time: the
\* positions of getPlanetPositions(time), the masses m and sunMass; none of
\* them is read when gravity is disabled (every source is then inert).
CpuMassSources(state, time) ==
    IF state.enableGravity
    THEN LET pp == getPlanetPositions(time)
         IN  [positions |-> pp.positions,
              masses |-> [i \in 1..Len(pp.masses) |-> CpuPlanetMass(state, pp.masses[i])],
              sunMass |-> CpuSunMass(state)]
    ELSE [positions |-> <<>>,
          masses |-> [i \in 1..Len(PLANETS) |-> Fin(0)],
          sunMass |-> Fin(0)]

\* CurvedPointLight: const z = getSurfaceZ(0, 0, state, time)
CurvedPointLightFrame(state, time) ==
    [time |-> time,
     z |-> getSurfaceZ(Fin(0), Fin(0), state, time),
     sources |-> CpuMassSources(state, time)]

-----------------------------------------------------------------------------
(* components/SimulationCanvas.tsx: the older copies *)

\* The local getSurfaceZ of SimulationCanvas.tsx ("Kept in sync with
\* CURVATURE_COMMON in GLSL"): no input guard, no fallbacks, no gravity.
CanvasGetSurfaceZ(x, y, state, time) ==
    LET E == Lit(2, 1)
        nx == FDiv(x, Lit(10, 1))
        ny == FDiv(y, Lit(10, 1))
        distSq == FAdd(FMul(nx, nx), FMul(ny, ny))
        z1 == IF FGt(state.omega, Lit(102, 100))
              THEN FSub(Fin(0), FMul(FMul(FMul(FSub(state.omega, Lit(1, 1)), Lit(2, 1)), E),
                                     FMul(distSq, Lit(2, 1))))
              ELSE IF FLt(state.omega, Lit(98, 100))
              THEN FAdd(Fin(0), FMul(FMul(FMul(FMul(FSub(Lit(1, 1), state.omega), Lit(2, 1)), E),
                                          FSub(FMul(nx, nx), FMul(ny, ny))), Lit(2, 1)))
              ELSE Fin(0)
        t == FMul(time, state.chaosSpeed)
        c1 == FMul(FMul(FSin(FAdd(FMul(x, Lit(5, 10)), t)),
                        FSin(FAdd(FMul(y, Lit(5, 10)), t))), Lit(5, 10))
        c2 == FAdd(c1, FMul(FSin(FSub(FMul(x, Lit(15, 10)), FMul(t, Lit(5, 10)))), Lit(25, 100)))
        c3 == FAdd(c2, FMul(FCos(FAdd(FMul(y, Lit(15, 10)), FMul(t, Lit(5, 10)))), Lit(25, 100)))
        len == FSqrt(FAdd(FMul(x, x), FMul(y, y)))
        chaos == FAdd(c3, FMul(FSin(FSub(FMul(len, Lit(3, 10)), FMul(t, Lit(2, 1)))), Lit(1, 10)))
    IN  IF state.chaosMode THEN FAdd(z1, FMul(chaos, E)) ELSE z1

\* UniverseMesh (older copy): useFrame((state, delta) => { uTime.value += delta })
CanvasUniverseMeshFrame(u, delta) == [u EXCEPT !.uTime = FAdd(u.uTime, delta)]

\* CurvedMesh (older copy): onBeforeCompile injects uTime 0, uOmega, uChaos 0, uChaosSpeed 1
CanvasCurvedMeshCompileUniforms(omega) ==
    [uTime |-> Fin(0), uOmega |-> omega, uChaos |-> Fin(0),
     uChaosSpeed |-> Lit(1, 1), uExaggeration |-> Lit(2, 1)]

\* CurvedMesh (older copy): useFrame((rootState, delta) => { uTime.value += delta; ... })
CanvasCurvedMeshFrame(u, state, delta) ==
    [u EXCEPT !.uTime = FAdd(u.uTime, delta),
              !.uOmega = state.omega,
              !.uChaos = IF state.chaosMode THEN Lit(1, 1) ELSE Fin(0),
              !.uChaosSpeed = state.chaosSpeed]

\* TriangleOverlay (older copy): time = rootState.clock.elapsedTime, and the
\* closing vertex zClosing = getSurfaceZ(p1.x, p1.y, state, time), p1 = (0, 3).
CanvasTriangleFrame(state, time) ==
    [time |-> time, zClosing |-> CanvasGetSurfaceZ(Fin(0), Lit(3, 1), state, time)]

-----------------------------------------------------------------------------
(* unnamed/part_000: the local getSurfaceZ of the newer canvas.  Its PLANETS, *)
(* getEllipsePos and getPlanetPositions are the same text as utils/physics.ts *)

\* const EXAGGERATION = 2.0, local to the function.
Part000Exaggeration == Lit(2, 1)

\* 1. FLRW curvature logic.
Part000MetricStep(z, x, y, state) ==
    LET nx == FDiv(x, Lit(10, 1))
        ny == FDiv(y, Lit(10, 1))
        distSq == FAdd(FMul(nx, nx), FMul(ny, ny))
        omega == IF NumberIsFinite(state.omega) THEN state.omega ELSE Lit(1, 1)
    IN  IF FGt(omega, Lit(102, 100))
        THEN LET factor == FMul(FMul(FSub(omega, Lit(1, 1)), Lit(2, 1)), Part000Exaggeration)
             IN  FSub(z, FMul(factor, FMul(distSq, Lit(2, 1))))
        ELSE IF FLt(omega, Lit(98, 100))
        THEN LET factor == FMul(FMul(FSub(Lit(1, 1), omega), Lit(2, 1)), Part000Exaggeration)
             IN  FAdd(z, FMul(FMul(factor, FSub(FMul(nx, nx), FMul(ny, ny))), Lit(2, 1)))
        ELSE z

Part000ChaosNoise(x, y, t) ==
    LET c1 == FMul(FMul(FSin(FAdd(FMul(x, Lit(5, 10)), t)),
                        FSin(FAdd(FMul(y, Lit(5, 10)), t))), Lit(5, 10))
        c2 == FAdd(c1, FMul(FSin(FSub(FMul(x, Lit(15, 10)), FMul(t, Lit(5, 10)))), Lit(25, 100)))
        c3 == FAdd(c2, FMul(FCos(FAdd(FMul(y, Lit(15, 10)), FMul(t, Lit(5, 10)))), Lit(25, 100)))
        len == FSqrt(FAdd(FMul(x, x), FMul(y, y)))
    IN  FAdd(c3, FMul(FSin(FSub(FMul(len, Lit(3, 10)), FMul(t, Lit(2, 1)))), Lit(1, 10)))

\* 2. Chaos mode logic.
Part000ChaosStep(z, x, y, state, time) ==
    IF state.chaosMode
    THEN LET speed == IF NumberIsFinite(state.chaosSpeed) THEN state.chaosSpeed ELSE Lit(1, 1)
             t == FMul(time, speed)
         IN  FAdd(z, FMul(Part000ChaosNoise(x, y, t), Part000Exaggeration))
    ELSE z

RECURSIVE Part000PlanetLoop(_, _, _, _, _, _)
\* for (let i = 0; i < positions.length; i++) { ... }
Part000PlanetLoop(z, i, x, y, state, pp) ==
    IF i > Len(pp.positions) THEN z
    ELSE LET pos == pp.positions[i]
             dx == FSub(x, pos.x)
             dy == FSub(y, pos.y)
             dSq == FAdd(FMul(dx, dx), FMul(dy, dy))
             m == FMul(pp.masses[i], FAdd(Lit(5, 10), FMul(state.precision, Lit(5, 10))))
             z1 == IF FGt(m, Fin(0))
                   THEN FSub(z, FMul(m, FExp(FMul(FNeg(dSq), Lit(1, 10)))))
                   ELSE z
         IN  Part000PlanetLoop(z1, i + 1, x, y, state, pp)

\* 3. Gravity wells (CPU side for the ant camera).
Part000GravityStep(z, x, y, state, time) ==
    IF state.enableGravity
    THEN LET zp == Part000PlanetLoop(z, 1, x, y, state, getPlanetPositions(time))
             dSqSun == FAdd(FMul(x, x), FMul(y, y))
             sunMass == FMul(Lit(15, 10), FAdd(Lit(5, 10), FMul(state.precision, Lit(5, 10))))
         IN  FSub(zp, FMul(sunMass, FExp(FMul(FNeg(dSqSun), Lit(5, 100)))))
    ELSE z

Part000GetSurfaceZ(x, y, state, time) ==
    IF ~NumberIsFinite(x) \/ ~NumberIsFinite(y) THEN Fin(0)
    ELSE LET z1 == Part000MetricStep(Fin(0), x, y, state)
             z2 == Part000ChaosStep(z1, x, y, state, time)
             z3 == Part000GravityStep(z2, x, y, state, time)
         IN  IF isNaN(z3) THEN Fin(0) ELSE z3

-----------------------------------------------------------------------------
(* components/SolarSystem.tsx: Sun and Planet; components/CameraControllers.tsx *)

\* Sun: const uniforms = useMemo(() => ({ ... }), [])
SunInitUniforms(state) ==
    [uTime |-> Fin(0),
     uOmega |-> state.omega,
     uChaos |-> IF state.chaosMode THEN Lit(1, 1) ELSE Fin(0),
     uChaosSpeed |-> state.chaosSpeed,
     uExaggeration |-> Lit(2, 1),
     uGravPos |-> [i \in 1..6 |-> [x |-> Fin(0), y |-> Fin(0)]],
     uGravMass |-> [i \in 1..6 |-> Fin(0)],
     uSunMass |-> Fin(0)]

\* Sun: useEffect(() => { if (materialRef.current) { ... } }, [state])
SunEffect(u, state) ==
    [u EXCEPT !.uOmega = state.omega,
              !.uChaos = IF state.chaosMode THEN Lit(1, 1) ELSE Fin(0),
              !.uChaosSpeed = state.chaosSpeed]

\* Sun: useFrame((rootState) => { if (materialRef.current) { ... } })
SunFrame(u, state, time) ==
    LET pp == getPlanetPositions(time)
        k == FAdd(Lit(5, 10), FMul(state.precision, Lit(5, 10)))
    IN  [u EXCEPT !.uTime = time,
                  !.uGravPos = pp.positions,
                  !.uGravMass = IF state.enableGravity
                                THEN [i \in 1..Len(pp.masses) |-> FMul(pp.masses[i], k)]
                                ELSE [i \in 1..6 |-> Fin(0)],
                  !.uSunMass = IF state.enableGravity
                               THEN FMul(Lit(15, 10), k)
                               ELSE Fin(0)]

\* A variant of Planet's callback without the 0.5 multiplier of the angle.
PlanetFramePositionFullSpeed(data, time) ==
    LET pos == getEllipsePos(FMul(time, data.orbit.speed), data.orbit.a, data.orbit.e)
    IN  [x |-> pos.x, y |-> pos.y, z |-> Fin(0)]

\* Planet: useFrame, the position set on systemGroupRef for catalog entry data
PlanetFramePosition(data, time) ==
    LET angle == FMul(FMul(time, data.orbit.speed), Lit(5, 10))
        pos == getEllipsePos(angle, data.orbit.a, data.orbit.e)
    IN  [x |-> pos.x, y |-> pos.y, z |-> Fin(0)]

\* EarthViewController: useFrame, the point of the orbit the camera rides on
\* and the height it asks for there; nothing while antMode is off.
EarthViewFrame(state, time) ==
    LET earth == PLANETS[CHOOSE i \in 1..Len(PLANETS) : PLANETS[i].name = "Earth"]
        angle == FMul(FMul(time, earth.orbit.speed), Lit(5, 10))
        pos == getEllipsePos(angle, earth.orbit.a, earth.orbit.e)
    IN  [pos |-> pos, z |-> getSurfaceZ(pos.x, pos.y, state, time)]

-----------------------------------------------------------------------------
(* types.ts and components/SimulationCanvas.tsx: TriangleOverlay, the curved *)
(* triangle drawn into a preallocated position buffer                       *)

\* Math.floor
FFloor(a) == IF IsFin(a) THEN Fin((a[2] \div SCALE) * SCALE) ELSE a
\* Math.min
FMin(a, b) == IF IsNaNv(a) \/ IsNaNv(b) THEN NaN ELSE IF FLt(b, a) THEN b ELSE a
\* THREE.MathUtils.lerp(x, y, t) = (1 - t) * x + t * y
lerp(x, y, t) == FAdd(FMul(FSub(Lit(1, 1), t), x), FMul(t, y))

\* const p1 = new THREE.Vector2(0, 3), p2 = (-3, -2), p3 = (3, -2)
TriP1 == [x |-> Fin(0), y |-> Lit(3, 1)]
TriP2 == [x |-> Lit(0 - 3, 1), y |-> Lit(0 - 2, 1)]
TriP3 == [x |-> Lit(3, 1), y |-> Lit(0 - 2, 1)]

MAX_SEGMENTS == Lit(150, 1)

\* const SEGMENTS_PER_EDGE = Math.min(Math.floor(30 + state.precision * 70), MAX_SEGMENTS)
TriSegmentsPerEdge(state) ==
    FMin(FFloor(FAdd(Lit(30, 1), FMul(state.precision, Lit(70, 1)))), MAX_SEGMENTS)

\* const maxVerts = (MAX_SEGMENTS * 3 + 10) * 3; new Float32Array(maxVerts * 3)
TriBufferLength == ((150 * 3 + 10) * 3) * 3

\* A segment count with a steeper slope: 110 segments at precision 1.
CanvasTriSegmentsPerEdgeSteep(state) ==
    FFloor(FAdd(Lit(30, 1), FMul(state.precision, Lit(80, 1))))

\* Older copy: const SEGMENTS_PER_EDGE = Math.floor(30 + state.precision * 70)
CanvasTriSegmentsPerEdge(state) ==
    FFloor(FAdd(Lit(30, 1), FMul(state.precision, Lit(70, 1))))

\* Older copy: const vertexCount = (100 * 3) + 1; new Float32Array(vertexCount * 3)
CanvasTriBufferLength == ((100 * 3) + 1) * 3

\* A Float32Array of the given length, all zeros: buf holds the elements up
\* to the highest index written so far, the rest are still 0.
NewBuffer(length) ==
    [done |-> FALSE, length |-> length, buf |-> <<>>, ptr |-> 0, written |-> 0, draw |-> 0]

\* The number of passes of for (let i = 0; i < seg; i++) for a seg that is not
\* +Infinity.
LoopPasses(seg) ==
    IF IsFin(seg) /\ seg[2] > 0 THEN (seg[2] + SCALE - 1) \div SCALE ELSE 0

\* The vertex pass i of drawEdge computes with the evaluator's height z.
EdgeVertex(i, start, end, seg, z) ==
    LET t == FDiv(Fin(i * SCALE), seg)
        x == lerp(start.x, end.x, t)
        y == lerp(start.y, end.y, t)
    IN  [x |-> x, y |-> y, z |-> z]

\* The vertices the passes of one drawEdge(start, end) compute, in order.
TriEdge(start, end, seg, state, time) ==
    [k \in 1..LoopPasses(seg) |->
        LET v == EdgeVertex(k - 1, start, end, seg, Fin(0))
        IN  [v EXCEPT !.z = getSurfaceZ(v.x, v.y, state, time)]]

\* Older copy: the same with the local getSurfaceZ.
CanvasTriEdge(start, end, seg, state, time) ==
    [k \in 1..LoopPasses(seg) |->
        LET v == EdgeVertex(k - 1, start, end, seg, Fin(0))
        IN  [v EXCEPT !.z = CanvasGetSurfaceZ(v.x, v.y, state, time)]]

\* Number.isFinite(x) && Number.isFinite(y) && Number.isFinite(z)
FiniteVertex(v) == NumberIsFinite(v.x) /\ NumberIsFinite(v.y) /\ NumberIsFinite(v.z)

\* positions[ptr++] = x; positions[ptr++] = y; positions[ptr++] = z + 0.1, for
\* each vertex of vs in turn.
VertexFloats(vs) ==
    [k \in 1..(3 * Len(vs)) |->
        LET v == vs[((k - 1) \div 3) + 1]
            c == (k - 1) % 3
        IN  IF c = 0 THEN v.x ELSE IF c = 1 THEN v.y ELSE FAdd(v.z, Lit(1, 10))]

\* The buffer after floats were stored from index 0 on: a typed array ignores
\* a write past its end, and keeps what lies behind the last write.
BufferStore(b, floats) ==
    LET n == IF Len(floats) < b.length THEN Len(floats) ELSE b.length
        m == IF Len(b.buf) > n THEN Len(b.buf) ELSE n
    IN  [b EXCEPT !.done = TRUE,
                  !.buf = [k \in 1..m |-> IF k <= n THEN floats[k] ELSE b.buf[k]],
                  !.ptr = Len(floats),
                  !.written = Len(floats) \div 3,
                  !.draw = Len(floats) \div 3]

\* The vertices every pass of the three drawEdge calls computes, in order.
TriPasses(state, time) ==
    LET seg == TriSegmentsPerEdge(state)
    IN  TriEdge(TriP1, TriP2, seg, state, time)
        \o TriEdge(TriP2, TriP3, seg, state, time)
        \o TriEdge(TriP3, TriP1, seg, state, time)

\* The vertices a frame stores.  A pass writes its vertex when
\* ptr < MAX_PTR - 3 and the vertex is finite; once ptr reaches MAX_PTR - 3
\* every later pass breaks and the closing vertex is skipped, so the vertices
\* written are the first finite ones, as many as start below MAX_PTR - 3.
TriKept(passes, closing, length) ==
    LET room == (length - 3 + 2) \div 3
    IN  CHOOSE kept \in {IF Len(finite) > room THEN SubSeq(finite, 1, room) ELSE finite :
                           finite \in {SelectSeq(passes, FiniteVertex)
                                       \o (IF NumberIsFinite(closing.z)
                                           THEN <<closing>> ELSE <<>>)}} : TRUE

\* TriangleOverlay: useFrame((rootState) => { ... }).  Each stage is computed
\* once and handed on as a value.
TriangleFrame(prev, state, time) ==
    LET closing == [x |-> TriP1.x, y |-> TriP1.y,
                    z |-> getSurfaceZ(TriP1.x, TriP1.y, state, time)]
    IN  CHOOSE b \in {BufferStore(prev, floats) :
                        floats \in {VertexFloats(kept) :
                            kept \in {TriKept(passes, closing, prev.length) :
                                passes \in {TriPasses(state, time)}}}} : TRUE

\* Older copy: the vertices every pass computes, then the closing vertex.
CanvasTriPasses(state, time) ==
    LET seg == CanvasTriSegmentsPerEdge(state)
    IN  CanvasTriEdge(TriP1, TriP2, seg, state, time)
        \o CanvasTriEdge(TriP2, TriP3, seg, state, time)
        \o CanvasTriEdge(TriP3, TriP1, seg, state, time)
        \o <<[x |-> TriP1.x, y |-> TriP1.y,
              z |-> CanvasGetSurfaceZ(TriP1.x, TriP1.y, state, time)]>>

\* Older copy of TriangleOverlay: useFrame((rootState) => { ... }): every pass
\* writes its vertex, then the closing vertex is written.
CanvasTriangleDraw(prev, state, time) ==
    CHOOSE b \in {BufferStore(prev, floats) :
                    floats \in {VertexFloats(passes) :
                        passes \in {CanvasTriPasses(state, time)}}} : TRUE

-----------------------------------------------------------------------------
(* unnamed/part_001 (App): setZoom; components/Controls.tsx: the omega slider; *)
(* components/CameraControllers.tsx: the zoom effect and onControlsChange      *)

\* Math.max and Math.abs
FMax(a, b) == IF IsNaNv(a) \/ IsNaNv(b) THEN NaN ELSE IF FGt(b, a) THEN b ELSE a
FAbs(a) == IF IsNaNv(a) THEN NaN ELSE IF IsInf(a) THEN PosInf ELSE Fin(Abs(a[2]))

\* A variant of setZoom without the isFinite guard.
setZoomUnguarded(prev, z) ==
    [prev EXCEPT !.zoom = FMin(FMax(z, Lit(2, 10)), Lit(3, 1))]

\* setZoom(z) of App: the state it leaves, prev being the state it finds
setZoom(prev, z) ==
    IF ~NumberIsFinite(z) THEN prev
    ELSE [prev EXCEPT !.zoom = FMin(FMax(z, Lit(2, 10)), Lit(3, 1))]

\* A variant of the omega slider's handler whose band is 0.98 < v < 1.02.
OmegaSliderValueNarrow(v) ==
    IF FGt(v, Lit(98, 100)) /\ FLt(v, Lit(102, 100)) THEN Lit(1, 1) ELSE v

\* onChange of the omega slider: the value it hands to updateState
OmegaSliderValue(v) ==
    IF FGt(v, Lit(95, 100)) /\ FLt(v, Lit(105, 100)) THEN Lit(1, 1) ELSE v

\* CameraController: the position of the camera a mount starts from, [0, 15, 15],
\* as a distance to the controls' target (the origin): 15 * sqrt(2)
MountDistance == Fin(212132)

\* A variant of the zoom effect that multiplies where the handler divides.
ZoomEffectInverted(dist, state) ==
    IF state.antMode THEN dist ELSE FMul(Lit(18, 1), state.zoom)

\* CameraController: useEffect [state.zoom, state.antMode], the distance it
\* leaves the camera at (the direction is kept, or (0, 1, 1) at the target)
ZoomEffect(dist, state) ==
    IF state.antMode THEN dist ELSE FDiv(Lit(18, 1), state.zoom)

\* OrbitControls minDistance = 5, maxDistance = 50
OrbitLimit(dist) == FMin(FMax(dist, Lit(5, 1)), Lit(50, 1))

\* onControlsChange: whether it calls setZoom, and the state it leaves
onControlsChangeCalls(state, dist) ==
    /\ ~state.antMode
    /\ FGt(FAbs(FSub(FDiv(Lit(18, 1), dist), state.zoom)), Lit(1, 10))

onControlsChange(state, dist) ==
    IF onControlsChangeCalls(state, dist)
    THEN setZoom(state, FDiv(Lit(18, 1), dist))
    ELSE state

-----------------------------------------------------------------------------
(* components/SimulationCanvas.tsx: AntController.  The record of the walker   *)
(* holds antPos.current (x, y), the y the last moving frame started from,      *)
(* whether that frame wrapped around, and the camera calls of that frame: the  *)
(* vector handed to camera.position.lerp with alpha 0.1 and the point handed   *)
(* to camera.lookAt.                                                           *)

\* useRef({ x: 0, y: -9 })
AntStart ==
    [x |-> Fin(0), y |-> Lit(0 - 9, 1), from |-> Lit(0 - 9, 1), wrapped |-> FALSE,
     view |-> [done |-> FALSE]]

\* A variant of the step that wraps around one frame late: the reset is taken
\* on the y the frame started from.
AntAdvanceLate(y, delta) ==
    IF FGt(y, Lit(9, 1)) THEN Lit(0 - 9, 1) ELSE FAdd(y, FMul(Lit(2, 1), delta))

\* antPos.current.y += 2.0 * delta; if (antPos.current.y > 9) antPos.current.y = -9
AntAdvance(y, delta) ==
    IF FGt(FAdd(y, FMul(Lit(2, 1), delta)), Lit(9, 1))
    THEN Lit(0 - 9, 1)
    ELSE FAdd(y, FMul(Lit(2, 1), delta))

AntView(x, y, state, time) ==
    [done |-> TRUE,
     lerpTo |-> [x |-> x,
                 y |-> FAdd(CanvasGetSurfaceZ(x, y, state, time), Lit(1, 1)),
                 z |-> FNeg(y)],
     alpha |-> Lit(1, 10),
     lookAt |-> [x |-> x,
                 y |-> FAdd(CanvasGetSurfaceZ(x, FAdd(y, Lit(2, 1)), state, time),
                            Lit(5, 10)),
                 z |-> FNeg(FAdd(y, Lit(2, 1)))]]

\* useFrame((rootState, delta) => ...): the walker after the callback
AntControllerFrame(a, state, dt, time) ==
    IF ~state.antMode THEN a
    ELSE CHOOSE w \in {[x |-> a.x,
                        y |-> y,
                        from |-> a.y,
                        wrapped |-> FGt(sum, Lit(9, 1)),
                        view |-> AntView(a.x, y, state, time)] :
                          sum \in {FAdd(a.y, FMul(Lit(2, 1), dt))},
                          y \in {AntAdvance(a.y, dt)}} : TRUE

-----------------------------------------------------------------------------
(* State *)

VARIABLES
    state,      \* the SimulationState held by App
    clock,      \* rootState.clock.elapsedTime
    query,      \* the point (x, y) a CPU consumer asks the height of
    ev,         \* the heights evaluated for query in this frame, or NoEval
    phase,      \* "idle" between frames, "callbacks" while a frame's useFrame callbacks run
    pending,    \* the useFrame callbacks that have not run yet in this frame
    delta,      \* the delta handed to this frame's callbacks
    um,         \* types.ts UniverseMesh: the uniforms of its shader material
    cm,         \* SolarSystem.tsx CurvedMesh of the pyramid: compiled, memoOmega, u
    light,      \* what CurvedPointLight computed on the CPU in its last callback
    drawn,      \* what the last rendered frame was drawn with
    canvasUm,   \* SimulationCanvas.tsx UniverseMesh: its uniforms
    canvasCm,   \* SimulationCanvas.tsx CurvedMesh of the pyramid
    canvasTri,  \* what the older TriangleOverlay computed in its last callback
    canvasDrawn, \* what the last frame of the older canvas was drawn with
    overlay,    \* the position buffers and draw ranges of the two TriangleOverlay versions
    camera,     \* the orbit camera: its distance to the controls' target
    ant         \* AntController: antPos.current and the frames it moved in

evalVars == <<query, ev>>
frameVars == <<phase, pending, delta>>
sceneVars == <<um, cm, light, drawn>>
canvasVars == <<canvasUm, canvasCm, canvasTri, canvasDrawn>>
appVars == <<overlay, camera, ant>>
vars == <<state, clock, query, ev, phase, pending, delta, um, cm, light, drawn,
          canvasUm, canvasCm, canvasTri, canvasDrawn, overlay, camera, ant>>

NoEval == [done |-> FALSE]
NoFrame == [done |-> FALSE]

\* Bounds of the evaluation harness: integer coordinates up to MaxCoord, and
\* the far point of the regression test, x = 10.
MaxCoord == 2
FarCoord == 10 * SCALE

Coords == {Fin(n * SCALE) : n \in (0 - MaxCoord)..MaxCoord} \cup {Fin(FarCoord)}
NonFinite == {NaN, PosInf, NegInf}
NearZero == {Fin(0), Fin(SCALE)}
Queries ==
    {[x |-> x, y |-> y] : x \in Coords, y \in Coords}
    \cup {[x |-> x, y |-> y] : x \in NonFinite, y \in NearZero}
    \cup {[x |-> x, y |-> y] : x \in NearZero, y \in NonFinite}
    \cup {[x |-> NaN, y |-> NaN], [x |-> PosInf, y |-> NegInf]}
OmegaValues == {Lit(50, 100), Lit(97, 100), Lit(98, 100), Lit(100, 100),
                Lit(102, 100), Lit(103, 100), Lit(150, 100)}
PrecisionValues == {Fin(0), Lit(5, 10), Lit(1, 1)}

\* useState<SimulationState>({ ... }) of App
InitialState ==
    [omega |-> Lit(1, 1), chaosMode |-> FALSE, chaosSpeed |-> Lit(1, 1),
     precision |-> Lit(5, 10), enableGravity |-> FALSE,
     showUniverseGrid |-> FALSE, show3DFigure |-> FALSE,
     showGeometry |-> TRUE, showCelestial |-> TRUE, showTrajectories |-> TRUE,
     colorTheme |-> "scientific", antMode |-> FALSE, zoom |-> Lit(1, 1)]

EvalStates ==
    {[InitialState EXCEPT !.omega = o, !.chaosMode = c, !.enableGravity = g, !.precision = p] :
        o \in OmegaValues \cup NonFinite, c \in BOOLEAN, g \in BOOLEAN, p \in PrecisionValues}

\* The scene before its first frame.
SceneInit ==
    /\ phase = "idle"
    /\ pending = {}
    /\ delta = Fin(0)
    /\ um = UniverseMeshInitUniforms(InitialState)
    /\ cm = [compiled |-> FALSE, memoOmega |-> InitialState.omega,
             u |-> CurvedMeshCompileUniforms(InitialState.omega)]
    /\ light = NoFrame
    /\ drawn = NoFrame

CanvasInit ==
    /\ canvasUm = [uTime |-> Fin(0), uOmega |-> InitialState.omega,
                   uChaos |-> Fin(0), uChaosSpeed |-> InitialState.chaosSpeed,
                   uExaggeration |-> Lit(2, 1)]
    /\ canvasCm = [compiled |-> FALSE, memoOmega |-> InitialState.omega,
                   u |-> CanvasCurvedMeshCompileUniforms(InitialState.omega)]
    /\ canvasTri = NoFrame
    /\ canvasDrawn = NoFrame

\* CameraController after its mount with state st: the effect has run once, and
\* the first update of the controls has a change event to deliver.  called tells
\* whether the last onControlsChange called setZoom, events counts the user's inputs.
CameraMounted(st) ==
    [dist |-> ZoomEffect(MountDistance, st),
     effectPending |-> FALSE, changePending |-> TRUE, called |-> FALSE, events |-> 0]

\* The buffers, the camera and the ant before the first frame.
AppInit ==
    /\ overlay = [tri |-> NewBuffer(TriBufferLength),
                  canvas |-> NewBuffer(CanvasTriBufferLength)]
    /\ camera = CameraMounted(InitialState)
    /\ ant = AntStart

EvalInit ==
    /\ state \in EvalStates
    /\ clock \in Times
    /\ query \in Queries
    /\ ev = NoEval
    /\ SceneInit
    /\ CanvasInit
    /\ AppInit

\* One frame of the harness: the uniforms are synchronised for (state, clock) as
\* UniverseMesh does, then both evaluators are asked for the height at query.
Evaluate ==
    /\ ~ev.done
    /\ LET u == UniverseMeshFrame(
                    UniverseMeshEffect(UniverseMeshInitUniforms(state), state), state, clock)
       IN  ev' = [done |-> TRUE,
                  u |-> u,
                  cpu |-> getSurfaceZ(query.x, query.y, state, clock),
                  cpuMetric |-> CpuMetricStep(Fin(0), query.x, query.y, state),
                  cpuChaos |-> CpuChaosStep(Fin(0), query.x, query.y, state, clock),
                  cpuGravity |-> CpuGravityStep(Fin(0), query.x, query.y, state, clock),
                  gpu |-> getCurvature(query, u),
                  gpuMetric |-> GpuMetricStep(Fin(0), query, u),
                  gpuChaos |-> GpuChaosStep(Fin(0), query, u),
                  gpuGravity |-> GpuGravityStep(Fin(0), query, u)]
    /\ UNCHANGED <<appVars, state, clock, query, frameVars, sceneVars, canvasVars>>

EvalNext == Evaluate

EvalSpec == EvalInit /\ [][EvalNext]_vars

-----------------------------------------------------------------------------
(* The frame loop of the current build: App, Controls, types.ts UniverseMesh, *)
(* SolarSystem.tsx CurvedMesh and CurvedPointLight                            *)

MaxTime == Fin((MaxTick * SCALE) \div 2)
Deltas == {Fin(SCALE \div 2), Fin(SCALE)}

Init ==
    /\ state = InitialState
    /\ clock = Fin(0)
    /\ query = [x |-> Fin(0), y |-> Fin(0)]
    /\ ev = NoEval
    /\ SceneInit
    /\ CanvasInit
    /\ AppInit

\* updateState(partial) of App, the re-render and the effects that follow it:
\* UniverseMesh's useEffect([state]) writes through materialRef when the grid is
\* shown; PyramidOverlay mounts CurvedMesh while show3DFigure, and a new
\* geometry (useMemo [state.precision]) makes CurvedMesh create a new material,
\* whose onBeforeCompile has not run yet.
updateState(next) ==
    /\ phase = "idle"
    /\ next # state
    /\ state' = next
    /\ um' = IF next.showUniverseGrid THEN UniverseMeshEffect(um, next) ELSE um
    /\ cm' = IF ~next.show3DFigure
             THEN [compiled |-> FALSE, memoOmega |-> next.omega,
                   u |-> CurvedMeshCompileUniforms(next.omega)]
             ELSE IF ~state.show3DFigure \/ next.precision # state.precision
             THEN [compiled |-> FALSE, memoOmega |-> next.omega,
                   u |-> CurvedMeshCompileUniforms(next.omega)]
             ELSE cm
    /\ UNCHANGED <<appVars, clock, evalVars, frameVars, light, drawn, canvasVars>>

ToggleGravity == updateState([state EXCEPT !.enableGravity = ~state.enableGravity])

SetPrecision == \E v \in PrecisionValues : updateState([state EXCEPT !.precision = v])

ToggleUniverseGrid == updateState([state EXCEPT !.showUniverseGrid = ~state.showUniverseGrid])

ToggleShow3DFigure == updateState([state EXCEPT !.show3DFigure = ~state.show3DFigure])

\* A frame of the render loop starts: the clock advances and every subscribed
\* useFrame callback is due, in no particular order.
BeginFrame ==
    /\ phase = "idle"
    /\ \E d \in Deltas :
          /\ FAdd(clock, d)[2] <= MaxTime[2]
          /\ clock' = FAdd(clock, d)
          /\ delta' = d
    /\ phase' = "callbacks"
    /\ pending' = {"UniverseMesh", "CurvedPointLight"}
                  \cup (IF state.show3DFigure THEN {"CurvedMesh"} ELSE {})
    /\ UNCHANGED <<appVars, state, evalVars, sceneVars, canvasVars>>

\* types.ts UniverseMesh: useFrame, a no-op while materialRef.current is null
UniverseMeshUseFrame ==
    /\ phase = "callbacks"
    /\ "UniverseMesh" \in pending
    /\ pending' = pending \ {"UniverseMesh"}
    /\ um' = IF state.showUniverseGrid THEN UniverseMeshFrame(um, state, clock) ELSE um
    /\ UNCHANGED <<appVars, state, clock, evalVars, phase, delta, cm, light, drawn, canvasVars>>

\* SolarSystem.tsx CurvedMesh: useFrame, a no-op until onBeforeCompile has
\* filled uniformsRef.current for the material in use
CurvedMeshUseFrame ==
    /\ phase = "callbacks"
    /\ "CurvedMesh" \in pending
    /\ pending' = pending \ {"CurvedMesh"}
    /\ cm' = IF cm.compiled THEN [cm EXCEPT !.u = CurvedMeshFrame(cm.u, state, clock)] ELSE cm
    /\ UNCHANGED <<appVars, state, clock, evalVars, phase, delta, um, light, drawn, canvasVars>>

\* SolarSystem.tsx CurvedPointLight: useFrame
CurvedPointLightUseFrame ==
    /\ phase = "callbacks"
    /\ "CurvedPointLight" \in pending
    /\ pending' = pending \ {"CurvedPointLight"}
    /\ light' = CurvedPointLightFrame(state, clock) @@ [done |-> TRUE]
    /\ UNCHANGED <<appVars, state, clock, evalVars, phase, delta, um, cm, drawn, canvasVars>>

\* gl.render after the callbacks: a material drawn for the first time is
\* compiled, which runs its onBeforeCompile, and the frame is drawn with the
\* uniform values present at that moment.
Render ==
    /\ phase = "callbacks"
    /\ pending = {}
    /\ phase' = "idle"
    /\ cm' = IF state.show3DFigure /\ ~cm.compiled
             THEN [cm EXCEPT !.compiled = TRUE, !.u = CurvedMeshCompileUniforms(cm.memoOmega)]
             ELSE cm
    /\ drawn' = [done |-> TRUE, time |-> clock,
                 gridShown |-> state.showUniverseGrid, grid |-> um,
                 curvedShown |-> state.show3DFigure, curved |-> cm'.u,
                 cpu |-> light]
    /\ UNCHANGED <<appVars, state, clock, evalVars, pending, delta, um, light, canvasVars>>

Next ==
    \/ ToggleGravity
    \/ SetPrecision
    \/ ToggleUniverseGrid
    \/ ToggleShow3DFigure
    \/ BeginFrame
    \/ UniverseMeshUseFrame
    \/ CurvedMeshUseFrame
    \/ CurvedPointLightUseFrame
    \/ Render

Spec == Init /\ [][Next]_vars

-----------------------------------------------------------------------------
(* The frame loop of the older canvas, components/SimulationCanvas.tsx *)

\* updateState(partial) and the re-render: UniverseMesh's useEffect([state]);
\* PyramidOverlay builds a new ConeGeometry on every render, so CurvedMesh
\* (useMemo [geometry]) creates a new, uncompiled material each time.
CanvasUpdateState(next) ==
    /\ phase = "idle"
    /\ next # state
    /\ state' = next
    /\ canvasUm' = [canvasUm EXCEPT !.uOmega = next.omega,
                                    !.uChaos = IF next.chaosMode THEN Lit(1, 1) ELSE Fin(0),
                                    !.uChaosSpeed = next.chaosSpeed]
    /\ canvasCm' = [compiled |-> FALSE, memoOmega |-> next.omega,
                    u |-> CanvasCurvedMeshCompileUniforms(next.omega)]
    /\ UNCHANGED <<appVars, clock, evalVars, frameVars, sceneVars, canvasTri, canvasDrawn>>

CanvasToggleChaos == CanvasUpdateState([state EXCEPT !.chaosMode = ~state.chaosMode])

CanvasSetPrecision == \E v \in PrecisionValues : CanvasUpdateState([state EXCEPT !.precision = v])

CanvasToggleShow3DFigure == CanvasUpdateState([state EXCEPT !.show3DFigure = ~state.show3DFigure])

CanvasBeginFrame ==
    /\ phase = "idle"
    /\ \E d \in Deltas :
          /\ FAdd(clock, d)[2] <= MaxTime[2]
          /\ clock' = FAdd(clock, d)
          /\ delta' = d
    /\ phase' = "callbacks"
    /\ pending' = {"UniverseMesh", "TriangleOverlay"}
                  \cup (IF state.show3DFigure THEN {"CurvedMesh"} ELSE {})
    /\ UNCHANGED <<appVars, state, evalVars, sceneVars, canvasVars>>

\* UniverseMesh (older copy): useFrame
CanvasUniverseMeshUseFrame ==
    /\ phase = "callbacks"
    /\ "UniverseMesh" \in pending
    /\ pending' = pending \ {"UniverseMesh"}
    /\ canvasUm' = CanvasUniverseMeshFrame(canvasUm, delta)
    /\ UNCHANGED <<appVars, state, clock, evalVars, phase, delta, sceneVars,
                   canvasCm, canvasTri, canvasDrawn>>

\* CurvedMesh (older copy): useFrame
CanvasCurvedMeshUseFrame ==
    /\ phase = "callbacks"
    /\ "CurvedMesh" \in pending
    /\ pending' = pending \ {"CurvedMesh"}
    /\ canvasCm' = IF canvasCm.compiled
                   THEN [canvasCm EXCEPT !.u = CanvasCurvedMeshFrame(canvasCm.u, state, delta)]
                   ELSE canvasCm
    /\ UNCHANGED <<appVars, state, clock, evalVars, phase, delta, sceneVars,
                   canvasUm, canvasTri, canvasDrawn>>

\* TriangleOverlay (older copy): useFrame
CanvasTriangleUseFrame ==
    /\ phase = "callbacks"
    /\ "TriangleOverlay" \in pending
    /\ pending' = pending \ {"TriangleOverlay"}
    /\ canvasTri' = CanvasTriangleFrame(state, clock) @@ [done |-> TRUE]
    /\ UNCHANGED <<appVars, state, clock, evalVars, phase, delta, sceneVars,
                   canvasUm, canvasCm, canvasDrawn>>

CanvasRender ==
    /\ phase = "callbacks"
    /\ pending = {}
    /\ phase' = "idle"
    /\ canvasCm' = IF state.show3DFigure /\ ~canvasCm.compiled
                   THEN [canvasCm EXCEPT !.compiled = TRUE,
                                         !.u = CanvasCurvedMeshCompileUniforms(canvasCm.memoOmega)]
                   ELSE canvasCm
    /\ canvasDrawn' = [done |-> TRUE, time |-> clock, grid |-> canvasUm,
                       curvedShown |-> state.show3DFigure, curved |-> canvasCm'.u,
                       cpu |-> canvasTri]
    /\ UNCHANGED <<appVars, state, clock, evalVars, pending, delta, sceneVars, canvasUm, canvasTri>>

CanvasNext ==
    \/ CanvasToggleChaos
    \/ CanvasSetPrecision
    \/ CanvasToggleShow3DFigure
    \/ CanvasBeginFrame
    \/ CanvasUniverseMeshUseFrame
    \/ CanvasCurvedMeshUseFrame
    \/ CanvasTriangleUseFrame
    \/ CanvasRender

CanvasSpec == Init /\ [][CanvasNext]_vars

-----------------------------------------------------------------------------
(* The parameter harness: every evaluator and every uniform writer of a frame, *)
(* for states and times that include the non-finite and out-of-range values   *)

ParamOmegas == {Lit(50, 100), Lit(1, 1), Lit(150, 100), NaN, PosInf, NegInf}
ParamSpeeds == {Lit(1, 1), Lit(2, 1), NaN, PosInf}
ParamPrecisions == {Lit(0 - 2, 1), Lit(0 - 1, 1), Fin(0), Lit(5, 10), Lit(1, 1), NaN}
ParamTimes == Times \cup {NaN, PosInf}
ParamQueries ==
    {[x |-> Fin(0), y |-> Fin(0)], [x |-> Fin(SCALE), y |-> Fin(0)],
     [x |-> Fin(0 - 2 * SCALE), y |-> Fin(SCALE)], [x |-> Fin(FarCoord), y |-> Fin(0)],
     [x |-> NaN, y |-> Fin(0)], [x |-> Fin(SCALE), y |-> PosInf]}

ParamStates ==
    {[InitialState EXCEPT !.omega = o, !.chaosMode = c, !.chaosSpeed = s,
                          !.enableGravity = g, !.precision = p] :
        o \in ParamOmegas, c \in BOOLEAN, s \in ParamSpeeds,
        g \in BOOLEAN, p \in ParamPrecisions}

ParamInit ==
    /\ state \in ParamStates
    /\ clock \in ParamTimes
    /\ query \in ParamQueries
    /\ ev = NoEval
    /\ SceneInit
    /\ CanvasInit
    /\ AppInit

\* One frame for (state, clock): each uniform writer runs its effect and its
\* useFrame, each CPU evaluator is asked for the height at query, Planet and
\* EarthViewController place their bodies.
EvaluateParams ==
    /\ ~ev.done
    /\ LET umU == UniverseMeshFrame(
                      UniverseMeshEffect(UniverseMeshInitUniforms(state), state), state, clock)
       IN  ev' = [done |-> TRUE,
                  cpu |-> getSurfaceZ(query.x, query.y, state, clock),
                  part000 |-> Part000GetSurfaceZ(query.x, query.y, state, clock),
                  canvas |-> CanvasGetSurfaceZ(query.x, query.y, state, clock),
                  umU |-> umU,
                  cmU |-> CurvedMeshFrame(CurvedMeshCompileUniforms(state.omega), state, clock),
                  sunU |-> SunFrame(SunEffect(SunInitUniforms(state), state), state, clock),
                  gpu |-> getCurvature(query, umU),
                  bodies |-> [i \in 1..Len(PLANETS) |-> PlanetFramePosition(PLANETS[i], clock)],
                  earthView |-> EarthViewFrame(state, clock)]
    /\ UNCHANGED <<appVars, state, clock, query, frameVars, sceneVars, canvasVars>>

ParamNext == EvaluateParams

ParamSpec == ParamInit /\ [][ParamNext]_vars

-----------------------------------------------------------------------------
(* getEllipsePos over its inputs: one call per (angle, a, e) *)

\* Eighths of a turn, the angles OrbitPath and the tests sample.
OrbitAngles == {Fin((k * PI_FX) \div 4) : k \in 0..8}

OrbitAxes ==
    {PLANETS[i].orbit.a : i \in 1..Len(PLANETS)} \cup {Fin(0), Fin(SCALE), Fin(10 * SCALE)}

OrbitEccentricities ==
    {PLANETS[i].orbit.e : i \in 1..Len(PLANETS)} \cup {Fin(0), Lit(5, 10), Lit(9, 10)}

OrbitInit ==
    /\ state = InitialState
    /\ clock = Fin(0)
    /\ query \in [theta : OrbitAngles, a : OrbitAxes, e : OrbitEccentricities]
    /\ ev = NoEval
    /\ SceneInit
    /\ CanvasInit
    /\ AppInit

EvaluateOrbit ==
    /\ ~ev.done
    /\ ev' = [done |-> TRUE, pos |-> getEllipsePos(query.theta, query.a, query.e)]
    /\ UNCHANGED <<appVars, state, clock, query, frameVars, sceneVars, canvasVars>>

OrbitNext == EvaluateOrbit

OrbitSpec == OrbitInit /\ [][OrbitNext]_vars

-----------------------------------------------------------------------------
(* Calls of getSurfaceZ and getPlanetPositions between changes of the display
   fields: the callers hand over the whole SimulationState *)

CallStates ==
    {[InitialState EXCEPT !.omega = c[1], !.chaosMode = c[2], !.enableGravity = c[3]] :
        c \in {<<Lit(150, 100), TRUE, TRUE>>, <<Lit(50, 100), FALSE, TRUE>>,
                <<Lit(1, 1), TRUE, FALSE>>, <<Lit(1, 1), FALSE, FALSE>>}}

CallQueries ==
    {[x |-> Fin(0), y |-> Fin(0)], [x |-> Fin(SCALE), y |-> Fin(0 - 2 * SCALE)],
     [x |-> Lit(65, 10), y |-> Fin(SCALE)]}

\* The values the Zoom Factor slider is moved to.
CallZooms == {Lit(5, 10), Lit(1, 1), Lit(25, 10)}

\* The partial states the display controls pass to updateState.
DisplayUpdates(st) ==
    {[st EXCEPT !.showGeometry = ~st.showGeometry],
     [st EXCEPT !.show3DFigure = ~st.show3DFigure],
     [st EXCEPT !.showCelestial = ~st.showCelestial],
     [st EXCEPT !.showTrajectories = ~st.showTrajectories],
     [st EXCEPT !.antMode = ~st.antMode],
     [st EXCEPT !.colorTheme = "scientific"],
     [st EXCEPT !.colorTheme = "cosmic"]}
    \cup {[st EXCEPT !.zoom = v] : v \in CallZooms}

CallInit ==
    /\ state \in CallStates
    /\ clock \in Times
    /\ query \in CallQueries
    /\ ev = NoEval
    /\ SceneInit
    /\ CanvasInit
    /\ AppInit

\* A caller evaluates the height at query and the planet positions for the
\* current state and time: neither function assigns to its arguments or to
\* PLANETS, so the state after the call is the state handed over.
CallEvaluate ==
    /\ ~ev.done
    /\ ev' = [done |-> TRUE,
              given |-> state,
              z |-> getSurfaceZ(query.x, query.y, state, clock),
              pp |-> getPlanetPositions(clock),
              catalog |-> PLANETS]
    /\ UNCHANGED <<appVars, state, clock, query, frameVars, sceneVars, canvasVars>>

\* A display control calls updateState; the next frame evaluates again.
CallUpdateDisplay ==
    /\ \E next \in DisplayUpdates(state) :
           /\ next # state
           /\ state' = next
    /\ ev' = NoEval
    /\ UNCHANGED <<appVars, clock, query, frameVars, sceneVars, canvasVars>>

CallNext == CallEvaluate \/ CallUpdateDisplay

CallSpec == CallInit /\ [][CallNext]_vars

-----------------------------------------------------------------------------
(* The frames of the two TriangleOverlay versions, between changes of the state *)

OverlayStates ==
    {InitialState,
     [InitialState EXCEPT !.precision = Lit(1, 1), !.omega = Lit(150, 100),
                          !.chaosMode = TRUE, !.enableGravity = TRUE],
     [InitialState EXCEPT !.precision = Fin(0), !.omega = Lit(50, 100)],
     [InitialState EXCEPT !.precision = NegInf, !.enableGravity = TRUE],
     [InitialState EXCEPT !.omega = PosInf],
     [InitialState EXCEPT !.showGeometry = FALSE, !.precision = Fin(0)]}

OverlayInit ==
    /\ state \in OverlayStates
    /\ clock = Fin(0)
    /\ query = [x |-> Fin(0), y |-> Fin(0)]
    /\ ev = NoEval
    /\ SceneInit
    /\ CanvasInit
    /\ AppInit

\* One frame: the clock advances and each version's useFrame callback runs;
\* without showGeometry the line is not mounted and geometryRef.current is null.
OverlayFrame ==
    /\ FAdd(clock, Fin(SCALE \div 2)) \in Times
    /\ clock' = FAdd(clock, Fin(SCALE \div 2))
    /\ overlay' = IF state.showGeometry
                  THEN [tri |-> TriangleFrame(overlay.tri, state, clock'),
                        canvas |-> CanvasTriangleDraw(overlay.canvas, state, clock')]
                  ELSE overlay
    /\ UNCHANGED <<state, evalVars, frameVars, sceneVars, canvasVars, camera, ant>>

\* updateState between two frames.
OverlayUpdateState ==
    /\ \E next \in OverlayStates :
           /\ next # state
           /\ state' = next
    /\ UNCHANGED <<clock, evalVars, frameVars, sceneVars, canvasVars, appVars>>

OverlayNext == OverlayFrame \/ OverlayUpdateState

OverlaySpec == OverlayInit /\ [][OverlayNext]_vars

-----------------------------------------------------------------------------
(* The handlers of the panel and setZoom, from the initial state of App.  ev   *)
(* holds the last call: its name, its argument and the state it found.         *)

\* <Slider min={0.5} max={1.5} step={0.01}>: the values of the omega slider from
\* 0.90 to 1.10, its two ends and two values between
OmegaSliderValues ==
    {Fin(n * 100) : n \in 90..110}
    \cup {Lit(5, 10), Lit(75, 100), Lit(125, 100), Lit(15, 10)}
\* <Slider min={0.5} max={2.5} step={0.1}>: values of the zoom slider
ZoomSliderValues == {Lit(5, 10), Lit(1, 1), Lit(25, 10)}
\* Arguments of setZoom: 18 / dist of a camera at the target, beyond and within
\* the controls' limits, and values no caller of this build produces.
SetZoomArgs ==
    {NaN, PosInf, NegInf, Fin(0), Lit(0 - 1, 1), Lit(1, 10), Lit(2, 10),
     Lit(36, 100), Lit(17, 10), Lit(3, 1), Lit(36, 10), Lit(5, 1)}

ControlsInit ==
    /\ state = InitialState
    /\ clock = Fin(0)
    /\ query = [x |-> Fin(0), y |-> Fin(0)]
    /\ ev = NoEval
    /\ SceneInit
    /\ CanvasInit
    /\ AppInit

SetZoomCall ==
    /\ \E z \in SetZoomArgs :
           /\ state' = setZoom(state, z)
           /\ ev' = [done |-> TRUE, call |-> "setZoom", arg |-> z, before |-> state]
    /\ UNCHANGED <<clock, query, frameVars, sceneVars, canvasVars, appVars>>

\* onChange={(v) => updateState({ zoom: v })}
ZoomSliderChange ==
    /\ \E v \in ZoomSliderValues :
           /\ state' = [state EXCEPT !.zoom = v]
           /\ ev' = [done |-> TRUE, call |-> "zoom", arg |-> v, before |-> state]
    /\ UNCHANGED <<clock, query, frameVars, sceneVars, canvasVars, appVars>>

\* onChange={(v) => { if (v > 0.95 && v < 1.05) v = 1.0; updateState({ omega: v }); }}
OmegaSliderChange ==
    /\ \E v \in OmegaSliderValues :
           /\ state' = [state EXCEPT !.omega = OmegaSliderValue(v)]
           /\ ev' = [done |-> TRUE, call |-> "omega", arg |-> v, before |-> state]
    /\ UNCHANGED <<clock, query, frameVars, sceneVars, canvasVars, appVars>>

\* onClick={() => updateState({ antMode: !state.antMode })}
AntModeClick ==
    /\ state' = [state EXCEPT !.antMode = ~state.antMode]
    /\ ev' = [done |-> TRUE, call |-> "antMode", arg |-> Fin(0), before |-> state]
    /\ UNCHANGED <<clock, query, frameVars, sceneVars, canvasVars, appVars>>

ControlsNext == SetZoomCall \/ ZoomSliderChange \/ OmegaSliderChange \/ AntModeClick

ControlsSpec == ControlsInit /\ [][ControlsNext]_vars

-----------------------------------------------------------------------------
(* CameraController between the user's inputs: the zoom slider, the ant-mode    *)
(* button and the dolly of the orbit controls; the effect and the change event *)
(* run after the input that caused them.                                       *)

MaxUserEvents == 3
\* Zooms the canvas is mounted with: the ends of setZoom's range, 18 / 50, and
\* values of the slider
CameraZooms == {Lit(2, 10), Lit(3, 10), Lit(36, 100), Lit(1, 1), Lit(3, 1)}
\* Distances the user dollies to, within minDistance and maxDistance
DollyDistances == {Lit(5, 1), Lit(6, 1), Lit(12, 1), Lit(19, 1), Lit(45, 1), Lit(50, 1)}

CameraInit ==
    /\ state \in {[InitialState EXCEPT !.zoom = z] : z \in CameraZooms}
    /\ clock = Fin(0)
    /\ query = [x |-> Fin(0), y |-> Fin(0)]
    /\ ev = NoEval
    /\ SceneInit
    /\ CanvasInit
    /\ overlay = [tri |-> NewBuffer(TriBufferLength),
                  canvas |-> NewBuffer(CanvasTriBufferLength)]
    /\ camera = CameraMounted(state)
    /\ ant = AntStart

\* The zoom slider: updateState({ zoom: v }); a changed zoom schedules the effect.
CameraZoomSlider ==
    /\ camera.events < MaxUserEvents
    /\ \E v \in ZoomSliderValues :
           /\ state' = [state EXCEPT !.zoom = v]
           /\ camera' = [camera EXCEPT !.events = @ + 1,
                                       !.effectPending = @ \/ v # state.zoom]
    /\ UNCHANGED <<clock, evalVars, frameVars, sceneVars, canvasVars, overlay, ant>>

\* The ant-mode button: the orbit camera is unmounted with ant mode on and
\* mounted again at [0, 15, 15] with ant mode off; the effect runs in both cases.
CameraAntModeClick ==
    /\ camera.events < MaxUserEvents
    /\ state' = [state EXCEPT !.antMode = ~state.antMode]
    /\ camera' = [camera EXCEPT !.events = @ + 1,
                                !.effectPending = TRUE,
                                !.dist = IF state.antMode THEN MountDistance ELSE @]
    /\ UNCHANGED <<clock, evalVars, frameVars, sceneVars, canvasVars, overlay, ant>>

\* The user dollies the orbit camera; the controls exist only with ant mode off.
UserDolly ==
    /\ camera.events < MaxUserEvents
    /\ ~state.antMode
    /\ \E d \in DollyDistances :
           camera' = [camera EXCEPT !.events = @ + 1, !.dist = d, !.changePending = TRUE]
    /\ UNCHANGED <<state, clock, evalVars, frameVars, sceneVars, canvasVars, overlay, ant>>

\* useEffect [state.zoom, state.antMode]; moving the camera makes the controls'
\* next update emit a change event.
ZoomEffectRun ==
    /\ camera.effectPending
    /\ \E d \in {ZoomEffect(camera.dist, state)} :
           camera' = [camera EXCEPT !.effectPending = FALSE,
                                    !.dist = d,
                                    !.changePending = @ \/ d # camera.dist]
    /\ UNCHANGED <<state, clock, evalVars, frameVars, sceneVars, canvasVars, overlay, ant>>

\* The controls' update and its change event: the distance is limited to
\* [minDistance, maxDistance], then onControlsChange runs.
ControlsChange ==
    /\ camera.changePending
    /\ \E d \in {IF state.antMode THEN camera.dist ELSE OrbitLimit(camera.dist)} :
       \E next \in {onControlsChange(state, d)} :
           /\ state' = next
           /\ camera' = [camera EXCEPT
                            !.changePending = FALSE,
                            !.dist = d,
                            !.called = onControlsChangeCalls(state, d),
                            !.effectPending = @ \/ next.zoom # state.zoom]
    /\ UNCHANGED <<clock, evalVars, frameVars, sceneVars, canvasVars, overlay, ant>>

CameraNext ==
    \/ CameraZoomSlider
    \/ CameraAntModeClick
    \/ UserDolly
    \/ ZoomEffectRun
    \/ ControlsChange

CameraSpec == CameraInit /\ [][CameraNext]_vars

\* React runs a scheduled effect after the commit, and the frame loop updates
\* the controls in every frame: neither waits forever.
CameraLiveSpec ==
    /\ CameraSpec
    /\ WF_vars(ZoomEffectRun)
    /\ WF_vars(ControlsChange)

-----------------------------------------------------------------------------
(* AntController in the frame loop of the older canvas: a frame hands delta and *)
(* the elapsed time to the callback; the ant-mode button is clicked between    *)
(* frames.  The elapsed time of a frame is an input drawn from Times.          *)

\* delta of a frame: none, 1.5 s and 20 s
AntDeltas == {Fin(0), Lit(15, 10), Lit(20, 1)}
AntStates ==
    {InitialState, [InitialState EXCEPT !.omega = Lit(150, 100), !.chaosMode = TRUE]}

AntInit ==
    /\ state \in AntStates
    /\ clock = Fin(0)
    /\ query = [x |-> Fin(0), y |-> Fin(0)]
    /\ ev = NoEval
    /\ SceneInit
    /\ CanvasInit
    /\ AppInit

\* The frame loop starts a frame.
AntBeginFrame ==
    /\ phase = "idle"
    /\ phase' = "callbacks"
    /\ pending' = {"AntController"}
    /\ \E d \in AntDeltas, t \in Times :
           /\ delta' = d
           /\ clock' = t
    /\ UNCHANGED <<state, evalVars, sceneVars, canvasVars, appVars>>

\* The useFrame callback of AntController.
AntCallback ==
    /\ phase = "callbacks"
    /\ "AntController" \in pending
    /\ ant' = AntControllerFrame(ant, state, delta, clock)
    /\ pending' = {}
    /\ phase' = "idle"
    /\ UNCHANGED <<state, clock, evalVars, delta, sceneVars, canvasVars, overlay, camera>>

\* onClick={() => updateState({ antMode: !state.antMode })}, between frames
AntToggle ==
    /\ phase = "idle"
    /\ state' = [state EXCEPT !.antMode = ~state.antMode]
    /\ UNCHANGED <<clock, evalVars, frameVars, sceneVars, canvasVars, appVars>>

AntNext == AntBeginFrame \/ AntCallback \/ AntToggle

AntSpec == AntInit /\ [][AntNext]_vars

\* requestAnimationFrame: the loop keeps starting frames, and a frame that has
\* started runs its callbacks: the step from "callbacks" to "idle", which only
\* AntCallback takes, does not wait forever.
AntLiveSpec ==
    /\ AntSpec
    /\ WF_vars(AntBeginFrame)
    /\ WF_phase(phase = "callbacks" /\ phase' = "idle")

-----------------------------------------------------------------------------
(* One mass source alone: the planet loop of getSurfaceZ over a one-entry
   positions/masses pair, sampled at two distances from the source *)

\* Distances at which m * exp(-d*d * GRAVITY_WELL_WIDTH) is still above the
\* resolution for every catalog mass.
NearDistances == {Fin(0), Lit(5, 10), Lit(1, 1), Lit(2, 1), Lit(3, 1), Lit(5, 1), Lit(7, 1)}

\* A distance at which Math.exp(-d*d * GRAVITY_WELL_WIDTH) = Math.exp(-1000)
\* underflows to 0 in double precision as well.
FarDistance == Lit(100, 1)

WellDistances == NearDistances \cup {FarDistance}

WellMasses == {PLANETS[i].mass : i \in 1..Len(PLANETS)}

WellSources == {[x |-> Fin(0), y |-> Fin(0)], [x |-> Lit(65, 10), y |-> Lit(0 - 3, 1)]}

\* The height a lone source of catalog mass mass at src adds to a flat sheet
\* at the point d to the right of it.
LoneWell(d, src, mass, st) ==
    CpuPlanetLoop(Fin(0), 1, FAdd(src.x, d), src.y, st,
                  [positions |-> <<src>>, masses |-> <<mass>>])

WellInit ==
    /\ state \in {[InitialState EXCEPT !.enableGravity = TRUE, !.precision = p] :
                      p \in PrecisionValues}
    /\ clock = Fin(0)
    /\ query \in {q \in [d1 : WellDistances, d2 : WellDistances,
                          src : WellSources, mass : WellMasses] : FLt(q.d1, q.d2)}
    /\ ev = NoEval
    /\ SceneInit
    /\ CanvasInit
    /\ AppInit

EvaluateWell ==
    /\ ~ev.done
    /\ ev' = [done |-> TRUE,
              atSource |-> LoneWell(Fin(0), query.src, query.mass, state),
              c1 |-> LoneWell(query.d1, query.src, query.mass, state),
              c2 |-> LoneWell(query.d2, query.src, query.mass, state)]
    /\ UNCHANGED <<appVars, state, clock, query, frameVars, sceneVars, canvasVars>>

WellNext == EvaluateWell

WellSpec == WellInit /\ [][WellNext]_vars

-----------------------------------------------------------------------------
(* Properties of the two evaluators, checked under EvalSpec *)

\* The parity tolerance, 1e-4.
TOLERANCE == SCALE \div 10000

FiniteQuery == IsFin(query.x) /\ IsFin(query.y)

Near(a, b, tol) ==
    IF IsFin(a) /\ IsFin(b) THEN Abs(a[2] - b[2]) <= tol ELSE a = b

Close(a, b) == Near(a, b, TOLERANCE)

\* The sum over the mass sources is compared with one resolution step allowed
\* per source: the shader squares a rounded distance(), getSurfaceZ does not.
WELL_TOLERANCE == (Len(PLANETS) + 1) * TOLERANCE

Origin == [x |-> Fin(0), y |-> Fin(0)]

\* C1: at every finite query point, for every time and state, getSurfaceZ and
\* getCurvature (fed the uniforms synchronised for that time and state) give
\* the same height, and the same metric, chaos and gravity-well terms.
C1_Parity ==
    ev.done /\ FiniteQuery =>
        /\ Near(ev.cpu, ev.gpu, WELL_TOLERANCE + TOLERANCE)
        /\ Close(ev.cpuMetric, ev.gpuMetric)
        /\ Close(ev.cpuChaos, ev.gpuChaos)
        /\ Near(ev.cpuGravity, ev.gpuGravity, WELL_TOLERANCE)

\* C2: the chaos term is built with one length-scale constant k on both sides,
\* and with pairwise equal other coefficients, so the chaos term of getSurfaceZ
\* equals the one of getChaosZ.
C2_SingleChaosConstant ==
    ev.done /\ FiniteQuery =>
        /\ CPU_CHAOS_LEN_K = GPU_CHAOS_LEN_K
        /\ Close(ev.cpuChaos, ev.gpuChaos)

InFlatBand == FGt(state.omega, Lit(979, 1000)) /\ FLt(state.omega, Lit(1021, 1000))

\* C6: for finite x, y, t and 0.98 <= omega <= 1.02 the metric term is exactly
\* 0, and with chaos and gravity disabled getSurfaceZ returns exactly 0.
C6_FlatDeadZone ==
    ev.done /\ FiniteQuery /\ InFlatBand =>
        /\ ev.cpuMetric = Fin(0)
        /\ ev.gpuMetric = Fin(0)
        /\ (~state.chaosMode /\ ~state.enableGravity => ev.cpu = Fin(0))

C6_Witness ==
    /\ ev.done /\ state.omega = Lit(102, 100)
    /\ query = [x |-> Fin(FarCoord), y |-> Fin(SCALE)]
    /\ clock # Fin(0)
    /\ ~state.chaosMode /\ ~state.enableGravity
    /\ ev.cpu = Fin(0)

Quiet == ~state.chaosMode /\ ~state.enableGravity

ClosedTerm(w, x, y) ==
    LET nx == FDiv(x, Lit(10, 1))
        ny == FDiv(y, Lit(10, 1))
        distSq == FAdd(FMul(nx, nx), FMul(ny, ny))
    IN  FNeg(FMul(FMul(FMul(FMul(FSub(w, Lit(1, 1)), Lit(2, 1)), Lit(2, 1)), Lit(2, 1)), distSq))

OpenTerm(w, x, y) ==
    LET nx == FDiv(x, Lit(10, 1))
        ny == FDiv(y, Lit(10, 1))
    IN  FMul(FMul(FMul(FMul(FSub(Lit(1, 1), w), Lit(2, 1)), Lit(2, 1)), Lit(2, 1)),
             FSub(FMul(nx, nx), FMul(ny, ny)))

Regime(label) ==
    IF label \in {"Closed (Spherical)", "> 180", "bg-blue-500", "#3b82f6"} THEN "closed"
    ELSE IF label \in {"Open (Hyperbolic)", "< 180", "bg-red-500", "#ef4444"} THEN "open"
    ELSE IF label \in {"Flat (Euclidean)", "= 180", "bg-green-500", "#10b981"} THEN "flat"
    ELSE "none"

\* C9: for every omega, getUniverseType, getAngleSum, the status dot and uColor
\* pick the same one of the three regimes (closed iff omega > 1.02, open iff
\* omega < 0.98, flat otherwise), and that regime is the branch getSurfaceZ and
\* getCurvature take.
C9_RegimeAgreement ==
    ev.done =>
        LET r == Regime(getUniverseType(state))
        IN  /\ (r = "closed") = FGt(state.omega, Lit(102, 100))
            /\ (r = "open") = FLt(state.omega, Lit(98, 100))
            /\ Regime(getAngleSum(state)) = r
            /\ Regime(StatusDotColour(state)) = r
            /\ Regime(ev.u.uColor) = r
            /\ GpuBranch(ev.u) = r
            /\ CpuBranch(state) = r

\* C10: if x or y is NaN or infinite, getSurfaceZ returns exactly 0, for every
\* time and state, chaos and gravity enabled included.
C10_NonFiniteQuery ==
    ev.done /\ ~FiniteQuery => ev.cpu = Fin(0)

C10_Witness ==
    /\ ev.done
    /\ query = [x |-> Fin(SCALE), y |-> NegInf]
    /\ state.chaosMode /\ state.enableGravity /\ state.omega = Lit(150, 100)
    /\ ev.cpu = Fin(0)

-----------------------------------------------------------------------------
(* Properties of the frame loops, checked under Spec and CanvasSpec *)

\* The mass sources a drawn mesh hands to getCurvature are those the CPU
\* consumer of the same frame handed to getSurfaceZ.
SameSources(u, sources) ==
    /\ u.uGravMass = sources.masses
    /\ u.uSunMass = sources.sunMass
    /\ sources.positions # <<>> => u.uGravPos = sources.positions

\* C4: in every frame, whatever the order of the useFrame callbacks, the
\* position and effective mass getSurfaceZ uses for each body, and its Sun
\* mass, are the values in uGravPos, uGravMass and uSunMass of every mesh drawn
\* in that frame.
C4_SameFrameMassSources ==
    drawn.done =>
        /\ drawn.gridShown => SameSources(drawn.grid, drawn.cpu.sources)
        /\ drawn.curvedShown => SameSources(drawn.curved, drawn.cpu.sources)

\* C5: in every rendered frame, after any sequence of frames, state changes
\* and mounts, the uTime each drawn mesh reads equals the time the CPU
\* evaluator was called with in that frame.
C5_SameFrameTime ==
    canvasDrawn.done =>
        /\ canvasDrawn.cpu.time = canvasDrawn.time
        /\ canvasDrawn.grid.uTime = canvasDrawn.cpu.time
        /\ canvasDrawn.curvedShown => canvasDrawn.curved.uTime = canvasDrawn.cpu.time

-----------------------------------------------------------------------------
(* Properties of the parameters, checked under ParamSpec *)

FiniteFrame == FiniteQuery /\ IsFin(clock)

\* The chaosSpeed the chaos branch of getSurfaceZ works with.
FallbackSpeed(st) == IF IsFin(st.chaosSpeed) THEN st.chaosSpeed ELSE Lit(1, 1)

\* C11: for finite x, y, t, getSurfaceZ with a non-finite omega returns the
\* height it returns with omega = 1.0, and with a non-finite chaosSpeed the
\* height it returns with chaosSpeed = 1.0, all other fields equal.
C11_DefensiveSubstitution ==
    ev.done /\ FiniteFrame =>
        /\ (~IsFin(state.omega) =>
               ev.cpu = getSurfaceZ(query.x, query.y,
                                    [state EXCEPT !.omega = Lit(1, 1)], clock))
        /\ (~IsFin(state.chaosSpeed) =>
               ev.cpu = getSurfaceZ(query.x, query.y,
                                    [state EXCEPT !.chaosSpeed = Lit(1, 1)], clock))

C11_Witness ==
    /\ ev.done /\ FiniteFrame
    /\ state.omega = PosInf /\ state.chaosSpeed = NaN
    /\ state.chaosMode /\ state.enableGravity
    /\ query = [x |-> Fin(SCALE), y |-> Fin(0)] /\ clock = Lit(5, 10)
    /\ IsFin(ev.cpu) /\ ev.cpu # Fin(0)

\* C12: every CPU height evaluator (utils/physics.ts, SimulationCanvas.tsx,
\* unnamed/part_000) returns a number that is never NaN, for every input,
\* non-finite x, y, time, omega, chaosSpeed and precision included.
C12_Totality ==
    ev.done => ~isNaN(ev.cpu) /\ ~isNaN(ev.part000) /\ ~isNaN(ev.canvas)

\* C13: the omega, chaos flag and chaosSpeed in the uniforms of a frame are
\* the effective values getSurfaceZ uses in that frame: the fallback 1.0
\* where state.omega or state.chaosSpeed is not finite.
C13_EffectiveUniforms ==
    ev.done =>
        \A u \in {ev.umU, ev.cmU} :
            /\ u.uOmega = EffectiveOmega(state)
            /\ u.uChaosSpeed = FallbackSpeed(state)
            /\ FGt(u.uChaos, Lit(5, 10)) = state.chaosMode

\* The state with gravity enabled in which every source has effective mass 0:
\* 0.5 + precision * 0.5 = 0.
ZeroMassState(st) == [st EXCEPT !.enableGravity = TRUE, !.precision = Lit(0 - 1, 1)]

UniformsFor(st, t) ==
    UniverseMeshFrame(UniverseMeshEffect(UniverseMeshInitUniforms(st), st), st, t)

\* C14: for every x, y, t and state, the height with enableGravity = false is
\* the height with gravity enabled and every planet and the Sun of effective
\* mass 0, for getSurfaceZ and for getCurvature with the uniforms written
\* while gravity is disabled.
C14_GravityOffIsZeroMass ==
    ev.done /\ ~state.enableGravity =>
        LET zm == ZeroMassState(state)
            src == CpuMassSources(zm, clock)
        IN  /\ \A i \in 1..Len(src.masses) : src.masses[i] = Fin(0)
            /\ src.sunMass = Fin(0)
            /\ ev.cpu = getSurfaceZ(query.x, query.y, zm, clock)
            /\ ev.gpu = getCurvature(query, UniformsFor(zm, clock))
            /\ ev.gpu = GpuChaosStep(GpuMetricStep(Fin(0), query, ev.umU), query, ev.umU)

C14_Witness ==
    /\ ev.done /\ ~state.enableGravity /\ FiniteFrame
    /\ state.chaosMode /\ state.precision = Lit(1, 1) /\ state.omega = Lit(150, 100)
    /\ query = [x |-> Fin(SCALE), y |-> Fin(0)]
    /\ ev.cpu # Fin(0)
    /\ ev.cpu # getSurfaceZ(query.x, query.y, [state EXCEPT !.enableGravity = TRUE], clock)

\* baseMass * (0.5 + 0.5 * precision)
ScaledMass(base, precision) == FMul(base, FAdd(Lit(5, 10), FMul(Lit(5, 10), precision)))

InUnitRange(p) == IsFin(p) /\ p[2] >= 0 /\ p[2] <= SCALE

XY(p) == [x |-> p.x, y |-> p.y]

\* C17: for every time t and catalog body the angle is t * speed * 0.5, and
\* the position of the gravity well (getPlanetPositions, and the uGravPos
\* written from it), the position of the rendered body (Planet useFrame) and,
\* for Earth, the point EarthViewController rides on are the same point in the
\* same frame.
C17_OrbitAngleConsistency ==
    ev.done =>
        LET wells == getPlanetPositions(clock).positions
        IN  /\ \A i \in 1..Len(PLANETS) :
                  LET p == PLANETS[i]
                      angle == FMul(FMul(clock, p.orbit.speed), Lit(5, 10))
                  IN  /\ wells[i] = XY(getEllipsePos(angle, p.orbit.a, p.orbit.e))
                      /\ XY(ev.bodies[i]) = wells[i] /\ ev.bodies[i].z = Fin(0)
                      /\ ev.umU.uGravPos[i] = wells[i]
                      /\ (p.name = "Earth" => XY(ev.earthView.pos) = wells[i])
            /\ \E i \in 1..Len(PLANETS) : PLANETS[i].name = "Earth"

C17_Witness ==
    /\ ev.done /\ clock = Lit(1, 1)
    /\ ev.earthView.pos = ev.bodies[3]
    /\ ev.bodies[3] = getEllipsePos(Lit(5, 10), Lit(65, 10), Lit(17, 1000))
    /\ ev.bodies[3] # PlanetFramePosition(PLANETS[3], Fin(0))
    /\ FGt(ev.bodies[3].y, Lit(3, 1))

-----------------------------------------------------------------------------
(* Properties of the mass-source arrays, checked under Spec *)

ZeroPositions == [i \in 1..6 |-> [x |-> Fin(0), y |-> Fin(0)]]

\* The arrays of u have one entry per catalog body, entry i of the positions
\* is body i's place at the time u was written (or the initial (0, 0)), and
\* entry i of the masses is 0 or body i's scaled mass.
SixSources(u) ==
    /\ Len(u.uGravPos) = 6 /\ Len(u.uGravMass) = 6 /\ Len(PLANETS) = 6
    /\ IsFin(u.uSunMass)
    /\ \/ u.uGravPos = ZeroPositions
       \/ \A i \in 1..6 : u.uGravPos[i] = XY(PlanetFramePosition(PLANETS[i], u.uTime))
    /\ \A i \in 1..6 :
          u.uGravMass[i] \in
              {Fin(0)} \cup {ScaledMass(PLANETS[i].mass, p) : p \in PrecisionValues}

\* C16: after any sequence of frames, gravity toggles and precision changes,
\* uGravPos and uGravMass have exactly PLANETS.length = 6 entries plus one Sun
\* mass, and entry i of both belongs to PLANETS[i], in the uniforms and in
\* what getSurfaceZ reads.
C16_FixedArity ==
    /\ SixSources(um)
    /\ SixSources(cm.u)
    /\ drawn.done => SixSources(drawn.grid) /\ SixSources(drawn.curved)
    /\ light.done =>
          /\ Len(light.sources.masses) = 6
          /\ \A i \in 1..6 :
                light.sources.masses[i] \in
                    {Fin(0)} \cup {ScaledMass(PLANETS[i].mass, p) : p \in PrecisionValues}
          /\ \/ light.sources.positions = <<>>
             \/ /\ Len(light.sources.positions) = 6
                /\ \A i \in 1..6 :
                      light.sources.positions[i] = XY(PlanetFramePosition(PLANETS[i], light.time))

C16_Witness ==
    /\ drawn.done /\ drawn.gridShown /\ drawn.curvedShown
    /\ drawn.time = MaxTime
    /\ state.enableGravity /\ state.precision = Lit(1, 1)
    /\ drawn.grid.uGravMass[6] = Lit(1, 1)
    /\ drawn.curved.uGravMass[1] = Lit(2, 10)
    /\ drawn.curved.uGravPos # ZeroPositions
    /\ drawn.cpu.sources.positions # <<>>

-----------------------------------------------------------------------------
(* Properties of the orbit solver, checked under OrbitSpec *)

\* C18: getEllipsePos(theta, a, e) has z = 0; at theta = 0 it is
\* (a*(1-e), 0), which is (a, 0) for e = 0 and x = 0.5a for e = 0.5; at
\* theta = pi with e = 0 it is (-a, 0); the ellipse runs from x = a - a*e to
\* x = -a - a*e with its centre at x = -a*e, so the origin is its focus.
C18_OrbitSolver ==
    ev.done =>
        LET a == query.a
            e == query.e
            c == FMul(a, e)
            b == FMul(a, FSqrt(FSub(Fin(SCALE), FMul(e, e))))
            pos == ev.pos
        IN  /\ pos.z = Fin(0)
            /\ IsFin(pos.x) /\ IsFin(pos.y)
            /\ query.theta = Fin(0) =>
                   /\ Close(pos.x, FMul(a, FSub(Fin(SCALE), e)))
                   /\ pos.y = Fin(0)
                   /\ (e = Fin(0) => pos.x = a)
                   /\ (e = Lit(5, 10) => Close(pos.x, FMul(Lit(5, 10), a)))
            /\ query.theta = Fin(PI_FX) =>
                   /\ Close(pos.x, FNeg(FAdd(a, c)))
                   /\ Close(pos.y, Fin(0))
                   /\ (e = Fin(0) => Close(pos.x, FNeg(a)))
            /\ query.theta = Fin(PI_FX \div 2) =>
                   /\ Close(pos.x, FNeg(c))
                   /\ Close(pos.y, b)
            /\ ~FGt(pos.x, FSub(a, c))
            /\ ~FLt(pos.x, FNeg(FAdd(a, c)))

C18_Witness ==
    /\ ev.done
    /\ query = [theta |-> Fin(0), a |-> Fin(10 * SCALE), e |-> Lit(5, 10)]
    /\ ev.pos = [x |-> Fin(5 * SCALE), y |-> Fin(0), z |-> Fin(0)]

-----------------------------------------------------------------------------
(* Properties of a lone gravity well, checked under WellSpec *)

\* C19, as stated: for a lone source of mass m > 0 and distances d1 < d2,
\* contribution(d1) <= contribution(d2) < 0: the well is strictly negative at
\* every finite distance.
C19_AsStated ==
    ev.done => ~FGt(ev.c1, ev.c2) /\ FLt(ev.c2, Fin(0))

\* C19, amended: for a lone source of effective mass m > 0 the contribution
\* is -m at the source, never positive and never below -m, non-decreasing
\* with distance, and strictly negative as long as the exponential has not
\* underflowed; at the far distance it is exactly 0.
C19_WellShape ==
    ev.done =>
        LET m == CpuPlanetMass(state, query.mass)
        IN  /\ FGt(m, Fin(0))
            /\ ev.atSource = FNeg(m)
            /\ ~FGt(ev.c1, ev.c2)
            /\ ~FLt(ev.c1, ev.atSource)
            /\ ~FGt(ev.c2, Fin(0))
            /\ FLt(ev.c1, Fin(0))
            /\ (query.d2 \in NearDistances => FLt(ev.c2, Fin(0)))
            /\ (query.d2 = FarDistance => ev.c2 = Fin(0))

C19_Witness ==
    /\ ev.done
    /\ query.d1 = Lit(1, 1)
    /\ query.d2 = FarDistance
    /\ FLt(ev.atSource, ev.c1)
    /\ FLt(ev.c1, Fin(0))
    /\ ev.c2 = Fin(0)

-----------------------------------------------------------------------------
(* Properties of the three layers, checked under ParamSpec *)

\* st with the parameters the chaos layer does not read at their initial
\* values: two states that differ only in omega, enableGravity or precision
\* have the same image.
ChaosOnly(st) ==
    [st EXCEPT !.omega = InitialState.omega,
               !.enableGravity = InitialState.enableGravity,
               !.precision = InitialState.precision]

\* st with the parameters the gravity layer does not read at their initial
\* values.
GravityOnly(st) ==
    [st EXCEPT !.omega = InitialState.omega,
               !.chaosMode = InitialState.chaosMode,
               !.chaosSpeed = InitialState.chaosSpeed]

\* st with chaosSpeed at its initial value.
AnySpeed(st) == [st EXCEPT !.chaosSpeed = InitialState.chaosSpeed]

\* What each layer adds to a sheet of height 0.
CpuMetricTerm(st) == CpuMetricStep(Fin(0), query.x, query.y, st)
CpuChaosTerm(st, t) == CpuChaosStep(Fin(0), query.x, query.y, st, t)
CpuGravityTerm(st, t) == CpuGravityStep(Fin(0), query.x, query.y, st, t)
GpuMetricTerm(st, t) == GpuMetricStep(Fin(0), query, UniformsFor(st, t))
GpuChaosTerm(st, t) == GpuChaosStep(Fin(0), query, UniformsFor(st, t))
GpuGravityTerm(st, t) == GpuGravityStep(Fin(0), query, UniformsFor(st, t))

LayersOff == ~state.chaosMode /\ ~state.enableGravity

\* C20: at a finite point the height is the metric term plus the chaos term
\* plus the gravity term (a NaN sum becoming 0 in getSurfaceZ); the chaos
\* term is the same for every omega, enableGravity and precision, the gravity
\* term for every omega, chaosMode and chaosSpeed, the metric term for every
\* time; with chaos and gravity both off the height is the same for every
\* time and chaosSpeed.  For getSurfaceZ and for getCurvature.
C20_AdditiveLayers ==
    ev.done /\ FiniteQuery =>
        LET sum == FAdd(FAdd(CpuMetricTerm(state), CpuChaosTerm(state, clock)),
                        CpuGravityTerm(state, clock))
        IN  /\ ev.cpu = (IF isNaN(sum) THEN Fin(0) ELSE sum)
            /\ ev.gpu = FAdd(FAdd(GpuMetricTerm(state, clock), GpuChaosTerm(state, clock)),
                             GpuGravityTerm(state, clock))
            /\ CpuChaosTerm(ChaosOnly(state), clock) = CpuChaosTerm(state, clock)
            /\ GpuChaosTerm(ChaosOnly(state), clock) = GpuChaosTerm(state, clock)
            /\ CpuGravityTerm(GravityOnly(state), clock) = CpuGravityTerm(state, clock)
            /\ GpuGravityTerm(GravityOnly(state), clock) = GpuGravityTerm(state, clock)
            /\ GpuMetricTerm(state, Fin(0)) = GpuMetricTerm(state, clock)
            /\ LayersOff =>
                   /\ ev.cpu = CpuMetricTerm(state)
                   /\ getSurfaceZ(query.x, query.y, AnySpeed(state), Fin(0)) = ev.cpu
                   /\ getCurvature(query, UniformsFor(AnySpeed(state), Fin(0))) = ev.gpu

C20_Witness ==
    /\ ev.done
    /\ query = [x |-> Fin(0 - 2 * SCALE), y |-> Fin(SCALE)]
    /\ state.chaosMode /\ state.enableGravity
    /\ state.omega = Lit(150, 100) /\ state.precision = Lit(1, 1)
    /\ clock = Lit(5, 10)
    /\ FLt(CpuMetricTerm(state), Fin(0))
    /\ CpuChaosTerm(state, clock) # Fin(0)
    /\ FLt(CpuGravityTerm(state, clock), Fin(0))
    /\ ev.cpu = FAdd(FAdd(CpuMetricTerm(state), CpuChaosTerm(state, clock)),
                     CpuGravityTerm(state, clock))
    /\ ev.cpu # CpuMetricTerm(state)

-----------------------------------------------------------------------------
(* Properties of the calls, checked under CallSpec *)

\* st with every display field at its initial value: two states that differ
\* only in display fields have the same image.
PhysicsOnly(st) ==
    [st EXCEPT !.showGeometry = InitialState.showGeometry,
               !.show3DFigure = InitialState.show3DFigure,
               !.showCelestial = InitialState.showCelestial,
               !.showTrajectories = InitialState.showTrajectories,
               !.colorTheme = InitialState.colorTheme,
               !.antMode = InitialState.antMode,
               !.zoom = InitialState.zoom]

-----------------------------------------------------------------------------
(* Properties of the mass guards, checked under ParamSpec *)

\* The effective masses are not positive: precision is -1 or less, or NaN.
NoPositiveMass(st) ==
    /\ ~FGt(CpuSunMass(st), Fin(0))
    /\ \A i \in 1..Len(PLANETS) : ~FGt(CpuPlanetMass(st, PLANETS[i].mass), Fin(0))

\* C22: with gravity enabled and no effective mass > 0, the planets and the
\* Sun add nothing to the height, in getSurfaceZ and in getCurvature alike.
C22_OnlyPositiveMasses ==
    ev.done /\ FiniteFrame /\ state.enableGravity /\ NoPositiveMass(state) =>
        /\ CpuGravityStep(Fin(0), query.x, query.y, state, clock) = Fin(0)
        /\ GpuGravityStep(Fin(0), query, ev.umU) = Fin(0)

\* The part of C22 that holds: the shader guards the planets and the Sun, and
\* getSurfaceZ guards the planets.
C22_GuardedSources ==
    ev.done /\ FiniteFrame /\ state.enableGravity /\ NoPositiveMass(state) =>
        /\ CpuPlanetLoop(Fin(0), 1, query.x, query.y, state, getPlanetPositions(clock)) = Fin(0)
        /\ GpuGravityStep(Fin(0), query, ev.umU) = Fin(0)

-----------------------------------------------------------------------------
(* Properties of the triangle's buffer, checked under OverlaySpec *)

\* The elements of a buffer inside its draw range.
InDrawRange(b) == {k \in 1..Len(b.buf) : k <= 3 * b.draw}

FiniteDrawRange(b) == \A k \in InDrawRange(b) : IsFin(b.buf[k])

\* C23: after any sequence of frames every vertex inside the draw range has
\* three finite coordinates and the draw range counts the vertices written in
\* the last frame, for each TriangleOverlay.
C23_FiniteVertices ==
    /\ overlay.tri.done => FiniteDrawRange(overlay.tri) /\ overlay.tri.draw = overlay.tri.written
    /\ overlay.canvas.done =>
           FiniteDrawRange(overlay.canvas) /\ overlay.canvas.draw = overlay.canvas.written

\* The part of C23 that holds: TriangleOverlay of types.ts.
C23_GuardedOverlay ==
    overlay.tri.done =>
        /\ FiniteDrawRange(overlay.tri)
        /\ overlay.tri.draw = overlay.tri.written
        /\ 3 * overlay.tri.draw <= Len(overlay.tri.buf)

\* C24: in every frame, for each TriangleOverlay, the write pointer ends
\* within the Float32Array, is a multiple of 3, and the draw range is at most
\* the number of vertices the buffer holds; nothing is written past the end.
C24_BufferBounds ==
    \A b \in {overlay.tri, overlay.canvas} :
        /\ b.ptr <= b.length
        /\ b.ptr % 3 = 0
        /\ b.draw <= b.length \div 3
        /\ 3 * b.draw = b.ptr
        /\ Len(b.buf) <= b.length

C24_Witness ==
    /\ overlay.tri.done /\ overlay.canvas.done
    /\ overlay.canvas.ptr = CanvasTriBufferLength
    /\ overlay.canvas.draw = 3 * 100 + 1
    /\ overlay.tri.draw = 3 * 100 + 1
    /\ overlay.tri.ptr < TriBufferLength - 3

-----------------------------------------------------------------------------
(* Properties of the panel's handlers and setZoom, checked under ControlsSpec *)

\* Math.min(Math.max(z, 0.2), 3.0) of a finite z, case by case
ClampedZoom(z) ==
    IF FLt(z, Lit(2, 10)) THEN Lit(2, 10) ELSE IF FGt(z, Lit(3, 1)) THEN Lit(3, 1) ELSE z

\* C25: after any sequence of setZoom calls and zoom-slider changes from zoom = 1
\* the zoom is finite and within [0.2, 3.0], so the camera distance 18 / zoom is
\* finite and positive; a setZoom call with a non-finite argument leaves the state
\* as it found it, and any other call stores the argument clamped to [0.2, 3.0]
\* in zoom and changes no other field.
C25_ZoomInRange ==
    /\ NumberIsFinite(state.zoom)
    /\ ~FLt(state.zoom, Lit(2, 10))
    /\ ~FGt(state.zoom, Lit(3, 1))
    /\ NumberIsFinite(FDiv(Lit(18, 1), state.zoom))
    /\ FGt(FDiv(Lit(18, 1), state.zoom), Fin(0))
    /\ (ev.done /\ ev.call = "setZoom") =>
           IF NumberIsFinite(ev.arg)
           THEN state = [ev.before EXCEPT !.zoom = ClampedZoom(ev.arg)]
           ELSE state = ev.before

\* setZoom(5) found the ant mode on and a zoom of 0.5, and left a zoom of 3.
C25_Witness ==
    /\ ev.done
    /\ ev.call = "setZoom"
    /\ ev.arg = Lit(5, 1)
    /\ ev.before.antMode
    /\ ev.before.zoom = Lit(5, 10)
    /\ state.zoom = Lit(3, 1)

\* C27: every omega slider value strictly between 0.95 and 1.05 is stored as 1.0
\* and any other value as it is; from omega = 1.0 the stored omega is 1.0 or lies
\* in [0.5, 0.95] or in [1.05, 1.5], so the Flat regime is shown iff omega = 1.0;
\* the slider's change modifies no field other than omega.
C27_OmegaSnapping ==
    /\ \/ state.omega = Lit(1, 1)
       \/ ~FLt(state.omega, Lit(5, 10)) /\ ~FGt(state.omega, Lit(95, 100))
       \/ ~FLt(state.omega, Lit(105, 100)) /\ ~FGt(state.omega, Lit(15, 10))
    /\ (getUniverseType(state) = "Flat (Euclidean)") <=> (state.omega = Lit(1, 1))
    /\ (ev.done /\ ev.call = "omega") =>
           /\ state = [ev.before EXCEPT !.omega = state.omega]
           /\ state.omega = IF FGt(ev.arg, Lit(95, 100)) /\ FLt(ev.arg, Lit(105, 100))
                            THEN Lit(1, 1)
                            ELSE ev.arg

\* The slider was moved from 1.5 to 0.97 and omega is 1.0.
C27_Witness ==
    /\ ev.done
    /\ ev.call = "omega"
    /\ ev.arg = Lit(97, 100)
    /\ ev.before.omega = Lit(15, 10)
    /\ ev.before.zoom = Lit(25, 10)
    /\ state.omega = Lit(1, 1)
    /\ getUniverseType(state) = "Flat (Euclidean)"

-----------------------------------------------------------------------------
(* Properties of the zoom/camera loop, checked under CameraLiveSpec *)

CameraQuiet == ~camera.effectPending /\ ~camera.changePending

\* a step of the controls' change event
ChangeEventStep == camera.changePending /\ ~camera'.changePending

\* C26: onControlsChange calls setZoom only with ant mode off and
\* |18 / dist - zoom| > 0.1; a change event that finds the camera at the distance
\* 18 / zoom the effect gave it calls no setZoom and leaves the state alone; with
\* ant mode on the event changes no zoom; and from any zoom in [0.2, 3.0], once
\* the user's inputs have stopped, the loop of effect and change event comes to
\* rest: eventually no effect and no change event is outstanding, for good.
C26_FeedbackSettles ==
    /\ [][ChangeEventStep =>
            /\ camera'.called <=>
                   /\ ~state.antMode
                   /\ FGt(FAbs(FSub(FDiv(Lit(18, 1), camera'.dist), state.zoom)), Lit(1, 10))
            /\ state' # state => camera'.called
            /\ (~state.antMode /\ camera'.dist = FDiv(Lit(18, 1), state.zoom)) =>
                   ~camera'.called /\ state' = state
            /\ state.antMode => state' = state /\ camera'.dist = camera.dist]_vars
    /\ <>[]CameraQuiet

\* At rest after a dolly to the nearest distance: the handler called setZoom(3.6),
\* the zoom is 3, the effect moved the camera to 6 and the event that followed
\* called nothing.
C26_Witness ==
    /\ CameraQuiet
    /\ camera.events > 0
    /\ state.zoom = Lit(3, 1)
    /\ camera.dist = Lit(6, 1)
    /\ ~camera.called
    /\ ~state.antMode

-----------------------------------------------------------------------------
(* Properties of the ant walker, checked under AntLiveSpec *)

\* a step of AntController's callback
AntCallbackStep == phase = "callbacks" /\ phase' = "idle"

C28_Wrapped ==
    /\ state.antMode
    /\ ant.wrapped
    /\ ant.y = Lit(0 - 9, 1)
    /\ delta = Lit(20, 1)

-----------------------------------------------------------------------------
(* Properties of the copies of the CPU evaluator, checked under ParamSpec *)

\* C29: the copies of the CPU evaluator agree: for every x, y, time and state
\* the local getSurfaceZ of unnamed/part_000 and the local getSurfaceZ of
\* components/SimulationCanvas.tsx return the height getSurfaceZ of
\* utils/physics.ts returns.
C29_CopiesAgree ==
    ev.done => ev.part000 = ev.cpu /\ ev.canvas = ev.cpu

\* The copy of unnamed/part_000 alone returns the height of utils/physics.ts.
C29_Part000Agrees ==
    ev.done => ev.part000 = ev.cpu

\* Where the older copy agrees: finite x, y, omega and chaosSpeed, a time that
\* is finite or unused, and gravity off.
C29_CanvasAgreesWithoutGravity ==
    (/\ ev.done
     /\ NumberIsFinite(query.x) /\ NumberIsFinite(query.y)
     /\ NumberIsFinite(state.omega) /\ NumberIsFinite(state.chaosSpeed)
     /\ NumberIsFinite(clock) \/ ~state.chaosMode
     /\ ~state.enableGravity)
        => ev.canvas = ev.cpu

=============================================================================
